---- MODULE Spec2Model ----
(***************************************************************************)
(* Message board server: wire codec, frame reassembler, board store and    *)
(* per-connection session engine of server.cpp / shared_state.h, with the  *)
(* monitor's writes to the shared state (server_gui.cpp).                  *)
(*                                                                         *)
(* Byte strings are sequences of one-character strings, so that the        *)
(* multi-byte separators are found, split on and erased as the code does.  *)
(***************************************************************************)
EXTENDS Integers, Sequences, FiniteSets, TLC

\* ------------------------------------------------------------------------
\* Bounds of the model
\* ------------------------------------------------------------------------
\* sessions that the accept loop may spawn
NumSessions == 2
\* messages one session takes from its connection
MaxMsgs == 2
\* payload fields of a generated POST message (parser specification)
MaxFields == 6
\* payload fields of a generated message with another command
MaxOtherFields == 3
\* bytes after which the peer of the reassembler specification stops writing
MaxStream == 8
\* presses of the monitor's "test posts" button
MaxClicks == 1
\* posts on the board of the get_board_handler specification
MaxBoard == 2
\* logEvent calls of one thread in the event-log specification
MaxLogCalls == 2

\* posts of one batch handed to post_handler
MaxBatch == 2
\* calls of handle_client_request in the post_handler specification
MaxPostCalls == 2
\* pieces a text handed to split_fields_until is made of
MaxPieces == 3
\* ------------------------------------------------------------------------
\* Program constants
\* ------------------------------------------------------------------------
NPOS == -1
EventLogCapacity == 100
TestPostCount == 5
TestClientId == 999
RecvChunkSize == 4096

fieldDelimiter == <<"}","+","{">>
transmissionTerminator == <<"}","}","&","{","{">>
messageSeperator == <<"}","#","{">>

StrGET_BOARD == <<"G","E","T","_","B","O","A","R","D">>
StrPOST == <<"P","O","S","T">>
StrINVALID_COMMAND == <<"I","N","V","A","L","I","D","_","C","O","M","M","A","N","D">>
StrQUIT == <<"Q","U","I","T">>
StrPOST_OK == <<"P","O","S","T","_","O","K">>
StrPOST_ERROR == <<"P","O","S","T","_","E","R","R","O","R">>

ErrEmptyMessage == <<"E","m","p","t","y"," ","m","e","s","s","a","g","e"," ","r","e","c","e","i","v","e","d",".">>
ErrNoFields == <<"M","a","l","f","o","r","m","e","d"," ","m","e","s","s","a","g","e",":"," ","n","o"," ","f","i","e","l","d","s"," ","f","o","u","n","d",".">>
ErrInvalidCommandPrefix == <<"I","n","v","a","l","i","d"," ","c","o","m","m","a","n","d",":"," ">>
ErrNoSets == <<"P","O","S","T"," ","c","o","n","t","a","i","n","s"," ","n","o"," ","(","A","u","t","h","o","r",","," ","T","i","t","l","e",","," ","M","e","s","s","a","g","e",")"," ","s","e","t","s",".">>
ErrTriples == <<"P","O","S","T"," ","r","e","q","u","i","r","e","s"," ","t","r","i","p","l","e","s"," ","o","f"," ","A","u","t","h","o","r",","," ","T","i","t","l","e",","," ","M","e","s","s","a","g","e",".">>
ErrEmptyBody == <<"P","O","S","T"," ","m","e","s","s","a","g","e"," ","c","a","n","n","o","t"," ","b","e"," ","e","m","p","t","y",".">>
ErrUnhandled == <<"U","n","h","a","n","d","l","e","d"," ","c","o","m","m","a","n","d"," ","o","r"," ","p","a","r","s","i","n","g"," ","e","r","r","o","r",".">>
ErrNoPosts == <<"N","o"," ","p","o","s","t","s"," ","t","o"," ","a","d","d">>
ErrGeneric == <<"E","r","r","o","r",","," ","u","n","a","b","l","e"," ","t","o"," ","i","n","t","e","r","p","r","e","t"," ","c","o","m","m","a","n","d"," ","-"," ","m","a","k","e"," ","s","u","r","e"," ","t","o"," ","u","s","e"," ","a","c","c","e","p","t","e","d"," ","l","e","g","i","t","i","m","a","t","e"," ","c","o","m","m","a","n","d","s","!">>
GoodbyeAuthor == <<"S","E","R","V","E","R">>
GoodbyeTitle == <<"B","Y","E","!","!","!">>
GoodbyeText == <<"S","e","r","v","e","r"," ","s","a","y","s",":"," ","B","Y","E","!","!","!">>
ShutdownTitle == <<"S","H","U","T","D","O","W","N">>
ShutdownText == <<"S","e","r","v","e","r"," ","i","s"," ","s","h","u","t","t","i","n","g"," ","d","o","w","n">>

\* ------------------------------------------------------------------------
\* std::string operations (positions are 0-based as in the code)
\* ------------------------------------------------------------------------
MinOf(S) == CHOOSE x \in S : \A y \in S : x <= y

\* text.find(pat, start)
Find(text, pat, start) ==
    LET hits == { p \in start..(Len(text) - Len(pat)) :
                     SubSeq(text, p + 1, p + Len(pat)) = pat }
    IN  IF hits = {} THEN NPOS ELSE MinOf(hits)

\* text.substr(start, n)
Substr(text, start, n) ==
    SubSeq(text, start + 1, IF start + n > Len(text) THEN Len(text) ELSE start + n)

\* text.erase(0, n)
EraseFront(text, n) == SubSeq(text, n + 1, Len(text))

\* mutant of SplitLoop: empty fields are not kept
RECURSIVE SplitLoopSkipsEmpty(_, _, _, _, _)
SplitLoopSkipsEmpty(text, delim, endPos, start, out) ==
    IF start > endPos THEN out
    ELSE LET p == Find(text, delim, start)
         IN  IF p = NPOS \/ p > endPos
             THEN IF endPos = start THEN out
                  ELSE Append(out, Substr(text, start, endPos - start))
             ELSE SplitLoopSkipsEmpty(text, delim, endPos, p + Len(delim),
                      IF p = start THEN out
                      ELSE Append(out, Substr(text, start, p - start)))

RECURSIVE SplitLoop(_, _, _, _, _)
SplitLoop(text, delim, endPos, start, out) ==
    IF start > endPos THEN out
    ELSE LET p == Find(text, delim, start)
         IN  IF p = NPOS \/ p > endPos
             THEN Append(out, Substr(text, start, endPos - start))
             ELSE SplitLoop(text, delim, endPos, p + Len(delim),
                            Append(out, Substr(text, start, p - start)))

split_fields_until(text, delim, endPos) == SplitLoop(text, delim, endPos, 0, <<>>)

\* mutant of ReplaceLoop: the field separator is inserted in front of the
\* record separator, which stays in the text
RECURSIVE ReplaceLoopInserts(_, _, _, _)
ReplaceLoopInserts(text, from, to, replacePos) ==
    LET p == Find(text, from, replacePos)
    IN  IF p = NPOS THEN text
        ELSE ReplaceLoopInserts(SubSeq(text, 1, p) \o to \o EraseFront(text, p),
                                from, to, p + Len(to) + Len(from))

\* the while loop of parse_message that rewrites every record separator
\* into a field separator, resuming the search after the replacement
RECURSIVE ReplaceLoop(_, _, _, _)
ReplaceLoop(text, from, to, replacePos) ==
    LET p == Find(text, from, replacePos)
    IN  IF p = NPOS THEN text
        ELSE ReplaceLoop(SubSeq(text, 1, p) \o to \o EraseFront(text, p + Len(from)),
                         from, to, p + Len(to))

\* kCmdFromStr.find(commandStr): the enum value, or "NOT_FOUND" for end()
kCmdFromStr(commandStr) ==
    IF commandStr = StrGET_BOARD THEN "GET_BOARD"
    ELSE IF commandStr = StrPOST THEN "POST"
    ELSE IF commandStr = StrINVALID_COMMAND THEN "INVALID_COMMAND"
    ELSE IF commandStr = StrQUIT THEN "QUIT"
    ELSE "NOT_FOUND"

\* ParseResult res{} with res.ok = false
EmptyParseResult ==
    [ok |-> FALSE, error |-> <<>>, clientCmd |-> "INVALID_COMMAND",
     posts |-> <<>>, filter_author |-> <<>>, filter_title |-> <<>>]

\* Post p{author, title, message}; clientId defaults to 0
MakePost(author, title, message) ==
    [author |-> author, title |-> title, message |-> message, clientId |-> 0]

\* mutant of PostTriples: a triple with an empty body is skipped, the rest kept
RECURSIVE PostTriplesSkipEmpty(_, _, _)
PostTriplesSkipEmpty(fields, i, res) ==
    IF i + 2 < Len(fields)
    THEN IF fields[i + 3] = <<>>
         THEN PostTriplesSkipEmpty(fields, i + 3, res)
         ELSE PostTriplesSkipEmpty(fields, i + 3,
                  [res EXCEPT !.posts = Append(@, MakePost(fields[i + 1], fields[i + 2], fields[i + 3]))])
    ELSE [res EXCEPT !.ok = TRUE]

\* mutant of PostTriples: the emptiness test reads the author, not the body
RECURSIVE PostTriplesTestAuthor(_, _, _)
PostTriplesTestAuthor(fields, i, res) ==
    IF i + 2 < Len(fields)
    THEN IF fields[i + 1] = <<>>
         THEN [res EXCEPT !.error = ErrEmptyBody]
         ELSE PostTriplesTestAuthor(fields, i + 3,
                  [res EXCEPT !.posts = Append(@, MakePost(fields[i + 1], fields[i + 2], fields[i + 3]))])
    ELSE [res EXCEPT !.ok = TRUE]

\* mutant of PostTriples: an empty body ends the loop and the posts before it
\* are accepted
RECURSIVE PostTriplesStopsSilently(_, _, _)
PostTriplesStopsSilently(fields, i, res) ==
    IF i + 2 < Len(fields)
    THEN IF fields[i + 3] = <<>>
         THEN [res EXCEPT !.ok = TRUE]
         ELSE PostTriplesStopsSilently(fields, i + 3,
                  [res EXCEPT !.posts = Append(@, MakePost(fields[i + 1], fields[i + 2], fields[i + 3]))])
    ELSE [res EXCEPT !.ok = TRUE]

\* the loop over the triples of a POST payload: stops at the first empty body
RECURSIVE PostTriples(_, _, _)
PostTriples(fields, i, res) ==
    IF i + 2 < Len(fields)
    THEN IF fields[i + 3] = <<>>
         THEN [res EXCEPT !.error = ErrEmptyBody]
         ELSE PostTriples(fields, i + 3,
                  [res EXCEPT !.posts = Append(@, MakePost(fields[i + 1], fields[i + 2], fields[i + 3]))])
    ELSE [res EXCEPT !.ok = TRUE]

parse_message(completeMessage) ==
    IF completeMessage = <<>>
    THEN [EmptyParseResult EXCEPT !.error = ErrEmptyMessage]
    ELSE
    LET termPos == Find(completeMessage, transmissionTerminator, 0)
        endPos == IF termPos # NPOS THEN termPos ELSE Len(completeMessage)
        messageToTokenize ==
            ReplaceLoop(Substr(completeMessage, 0, endPos), messageSeperator, fieldDelimiter, 0)
        fields == split_fields_until(messageToTokenize, fieldDelimiter, Len(messageToTokenize))
    IN  IF fields = <<>>
        THEN [EmptyParseResult EXCEPT !.error = ErrNoFields]
        ELSE
        LET commandStr == fields[1]
            cmd == kCmdFromStr(commandStr)
        IN  IF cmd = "NOT_FOUND"
            THEN [EmptyParseResult EXCEPT !.error = ErrInvalidCommandPrefix \o commandStr]
            ELSE IF cmd = "GET_BOARD"
            THEN [EmptyParseResult EXCEPT
                     !.clientCmd = cmd,
                     !.filter_author = IF Len(fields) > 1 THEN fields[2] ELSE <<>>,
                     !.filter_title = IF Len(fields) > 2 THEN fields[3] ELSE <<>>,
                     !.ok = TRUE]
            ELSE IF cmd = "POST"
            THEN LET payloadCount == Len(fields) - 1
                     res == [EmptyParseResult EXCEPT !.clientCmd = cmd]
                 IN  IF payloadCount = 0 THEN [res EXCEPT !.error = ErrNoSets]
                     ELSE IF payloadCount % 3 # 0 THEN [res EXCEPT !.error = ErrTriples]
                     ELSE PostTriples(fields, 1, res)
            ELSE IF cmd = "QUIT"
            THEN [EmptyParseResult EXCEPT !.clientCmd = cmd, !.ok = TRUE]
            ELSE [EmptyParseResult EXCEPT !.clientCmd = cmd, !.error = ErrUnhandled]

\* ------------------------------------------------------------------------
\* Response builders
\* ------------------------------------------------------------------------
build_post_ok ==
    StrPOST_OK \o fieldDelimiter \o <<>> \o fieldDelimiter \o <<>> \o fieldDelimiter
        \o <<>> \o transmissionTerminator

handle_post_error(errorMessage) ==
    StrPOST_ERROR \o fieldDelimiter \o <<>> \o fieldDelimiter \o <<>> \o fieldDelimiter
        \o errorMessage \o transmissionTerminator

\* mutant of InvalidCommandResponse: a rejected message is answered with POST_ERROR
InvalidCommandAsPostError(reason) ==
    StrPOST_ERROR \o fieldDelimiter \o <<>> \o fieldDelimiter \o <<>> \o fieldDelimiter
        \o reason \o transmissionTerminator

\* the INVALID_COMMAND response of handle_client_request
InvalidCommandResponse(reason) ==
    StrINVALID_COMMAND \o fieldDelimiter \o <<>> \o fieldDelimiter \o <<>> \o fieldDelimiter
        \o reason \o transmissionTerminator

\* the goodbye of client_handler
QuitResponse ==
    StrQUIT \o fieldDelimiter \o GoodbyeAuthor \o fieldDelimiter \o GoodbyeTitle
        \o fieldDelimiter \o GoodbyeText \o transmissionTerminator

\* mutant of BoardLoop: the author filter matches every author it starts
RECURSIVE BoardLoopPrefixMatch(_, _, _, _, _, _)
BoardLoopPrefixMatch(board, i, authorFilter, titleFilter, firstPost, allMessages) ==
    IF i > Len(board) THEN allMessages
    ELSE LET post == board[i]
         IN  IF authorFilter # <<>>
                   /\ SubSeq(post.author, 1, Len(authorFilter)) # authorFilter
             THEN BoardLoopPrefixMatch(board, i + 1, authorFilter, titleFilter, firstPost, allMessages)
             ELSE IF titleFilter # <<>> /\ post.title # titleFilter
             THEN BoardLoopPrefixMatch(board, i + 1, authorFilter, titleFilter, firstPost, allMessages)
             ELSE BoardLoopPrefixMatch(board, i + 1, authorFilter, titleFilter, FALSE,
                      allMessages \o (IF firstPost THEN <<>> ELSE messageSeperator)
                          \o fieldDelimiter \o post.author \o fieldDelimiter \o post.title
                          \o fieldDelimiter \o post.message)

\* mutant of BoardLoop: the separator is written after every post, not between
RECURSIVE BoardLoopSeparatorAfter(_, _, _, _, _, _)
BoardLoopSeparatorAfter(board, i, authorFilter, titleFilter, firstPost, allMessages) ==
    IF i > Len(board) THEN allMessages
    ELSE LET post == board[i]
         IN  IF authorFilter # <<>> /\ post.author # authorFilter
             THEN BoardLoopSeparatorAfter(board, i + 1, authorFilter, titleFilter, firstPost, allMessages)
             ELSE IF titleFilter # <<>> /\ post.title # titleFilter
             THEN BoardLoopSeparatorAfter(board, i + 1, authorFilter, titleFilter, firstPost, allMessages)
             ELSE BoardLoopSeparatorAfter(board, i + 1, authorFilter, titleFilter, FALSE,
                      allMessages \o fieldDelimiter \o post.author \o fieldDelimiter
                          \o post.title \o fieldDelimiter \o post.message \o messageSeperator)

\* the loop of get_board_handler over the board
RECURSIVE BoardLoop(_, _, _, _, _, _)
BoardLoop(board, i, authorFilter, titleFilter, firstPost, allMessages) ==
    IF i > Len(board) THEN allMessages
    ELSE LET post == board[i]
         IN  IF authorFilter # <<>> /\ post.author # authorFilter
             THEN BoardLoop(board, i + 1, authorFilter, titleFilter, firstPost, allMessages)
             ELSE IF titleFilter # <<>> /\ post.title # titleFilter
             THEN BoardLoop(board, i + 1, authorFilter, titleFilter, firstPost, allMessages)
             ELSE BoardLoop(board, i + 1, authorFilter, titleFilter, FALSE,
                      allMessages \o (IF firstPost THEN <<>> ELSE messageSeperator)
                          \o fieldDelimiter \o post.author \o fieldDelimiter \o post.title
                          \o fieldDelimiter \o post.message)

\* mutant of BoardResponse: the terminator is appended only when posts follow
BoardResponseBareWhenEmpty(board, authorFilter, titleFilter) ==
    LET body == BoardLoop(board, 1, authorFilter, titleFilter, TRUE, StrGET_BOARD)
    IN  IF body = StrGET_BOARD THEN body ELSE body \o transmissionTerminator

\* the response get_board_handler builds from the board it reads under the lock
BoardResponse(board, authorFilter, titleFilter) ==
    BoardLoop(board, 1, authorFilter, titleFilter, TRUE, StrGET_BOARD) \o transmissionTerminator


\* the wire form handle_client_request rebuilds from a parsed POST
RECURSIVE RawPosts(_, _)
RawPosts(posts, i) ==
    IF i > Len(posts) THEN <<>>
    ELSE fieldDelimiter \o posts[i].author \o fieldDelimiter \o posts[i].title
             \o fieldDelimiter \o posts[i].message
             \o (IF i < Len(posts) THEN messageSeperator ELSE <<>>)
             \o RawPosts(posts, i + 1)

\* raw_msg of handle_client_request: the transmission rebuilt from a ParseResult
raw_msg(p) ==
    IF p.clientCmd = "GET_BOARD"
    THEN StrGET_BOARD \o fieldDelimiter \o p.filter_author \o fieldDelimiter
             \o p.filter_title \o transmissionTerminator
    ELSE StrPOST \o RawPosts(p.posts, 1) \o transmissionTerminator

\* ------------------------------------------------------------------------
\* Threads and state
\* ------------------------------------------------------------------------
\* the thread of server_run_loop
SupervisorThread == 0
\* an unlocked std::mutex has no owner
NoThread == -1
\* the threads of client_handler, one per accepted connection
Sessions == 1..NumSessions
\* the main thread, which runs the monitor
ObserverThread == NumSessions + 1
Threads == 0..(NumSessions + 1)

VARIABLES
    \* SharedServerState
    messageBoard, totalMessagesReceived, eventLog, activeClientSockets,
    activeConnections, nextClientId, serverRunning,
    boardMutex, eventLogMutex, clientsMutex,
    \* position of every thread, and the arguments of its pending logEvent call
    pc, logKind, logRet,
    \* locals of client_handler
    CommunicationSocket, RxBuffer, CompletedMessage, parsed, myClientId,
    loopIdx, response, reg,
    \* locals of server_run_loop
    clientsToDisconnect, attempt,
    \* the connection as the peer sees it
    connLost, sent,
    \* history: bytes received, recv calls that returned bytes, messages
    \* returned by the reassembler, the
    \* batch every post came from, the posts a GET_BOARD response included
    stream, recvCalls, taken, batches, batchOf, curBatch, snap, parsedPostTotal, clicks,
    \* every record logEvent has stored, in the order of the calls' locks
    logHistory,
    \* the fields a generated message was built from
    genFields,
    \* the arguments and the result of a call of split_fields_until
    splitCall,
    \* totalSent of the send_all_bytes call a session is in, and every write
    \* a connection has carried: the thread, the response and the bytes
    totalSent, wire

G_board == <<messageBoard, totalMessagesReceived, batchOf>>
G_batch == <<batches, curBatch, loopIdx>>
G_mutex == <<boardMutex, eventLogMutex, clientsMutex>>
G_reg == <<activeClientSockets, activeConnections, nextClientId, myClientId, CommunicationSocket, reg>>
G_ctl == <<pc, logKind, logRet>>
G_msg == <<RxBuffer, CompletedMessage, parsed, stream, recvCalls, taken, parsedPostTotal>>
G_out == <<response, connLost, sent, snap>>
G_sup == <<serverRunning, clicks, clientsToDisconnect, attempt>>
G_gen == <<genFields, splitCall>>
G_wire == <<totalSent, wire>>

vars == <<messageBoard, totalMessagesReceived, eventLog, activeClientSockets,
          activeConnections, nextClientId, serverRunning,
          boardMutex, eventLogMutex, clientsMutex, pc, logKind, logRet,
          CommunicationSocket, RxBuffer, CompletedMessage, parsed, myClientId,
          loopIdx, response, reg, clientsToDisconnect, attempt, connLost, sent,
          stream, recvCalls, taken, batches, batchOf, curBatch, snap, parsedPostTotal, clicks,
          genFields, splitCall, logHistory, totalSent, wire>>

\* split_fields_until has not been called
NoCall == [text |-> <<>>, endPos |-> NPOS, out |-> <<>>]

\* SharedServerState as constructed, every thread before its first step
InitState(log) ==
    /\ messageBoard = <<>>
    /\ totalMessagesReceived = 0
    /\ eventLog = log
    /\ logHistory = log
    /\ activeClientSockets = <<>>
    /\ activeConnections = 0
    /\ nextClientId = 1
    /\ serverRunning = TRUE
    /\ boardMutex = NoThread
    /\ eventLogMutex = NoThread
    /\ clientsMutex = NoThread
    /\ pc = [t \in Threads |->
               IF t = SupervisorThread THEN "check"
               ELSE IF t = ObserverThread THEN "gui_idle" ELSE "idle"]
    /\ logKind = [t \in Threads |-> "NONE"]
    /\ logRet = [t \in Threads |-> "NONE"]
    /\ CommunicationSocket = [s \in Sessions |-> 0]
    /\ RxBuffer = [s \in Sessions |-> <<>>]
    /\ CompletedMessage = [s \in Sessions |-> <<>>]
    /\ parsed = [s \in Sessions |-> EmptyParseResult]
    /\ myClientId = [s \in Sessions |-> 0]
    /\ loopIdx = [t \in Threads |-> 0]
    /\ response = [s \in Sessions |-> <<>>]
    /\ reg = [s \in Sessions |-> 0]
    /\ clientsToDisconnect = <<>>
    /\ attempt = 0
    /\ connLost = [s \in Sessions |-> FALSE]
    /\ sent = [s \in Sessions |-> <<>>]
    /\ stream = [s \in Sessions |-> <<>>]
    /\ recvCalls = [s \in Sessions |-> 0]
    /\ taken = [s \in Sessions |-> <<>>]
    /\ batches = <<>>
    /\ batchOf = <<>>
    /\ curBatch = [t \in Threads |-> 0]
    /\ snap = [s \in Sessions |-> {}]
    /\ parsedPostTotal = 0
    /\ clicks = 0
    /\ genFields = <<>>
    /\ splitCall = NoCall
    /\ totalSent = [s \in Sessions |-> 0]
    /\ wire = [s \in Sessions |-> <<>>]

Init == InitState(<<>>)


\* ------------------------------------------------------------------------
\* Control flow helpers
\* ------------------------------------------------------------------------
Goto(t, label) ==
    /\ pc' = [pc EXCEPT ![t] = label]
    /\ UNCHANGED <<logKind, logRet>>

\* a call of g_serverState.logEvent(kind, ...) that returns to label ret
GoLog(t, kind, ret) ==
    /\ pc' = [pc EXCEPT ![t] = "log_lock"]
    /\ logKind' = [logKind EXCEPT ![t] = kind]
    /\ logRet' = [logRet EXCEPT ![t] = ret]

\* std::lock_guard on a mutex blocks until the mutex has no owner
MutexAvailable(mutex) == mutex = NoThread

\* ------------------------------------------------------------------------
\* SharedServerState::logEvent
\* ------------------------------------------------------------------------
\* mutant of LogLock: logEvent also waits for the board lock
LogLockAfterBoard(t) ==
    /\ pc[t] = "log_lock"
    /\ MutexAvailable(eventLogMutex)
    /\ MutexAvailable(boardMutex)
    /\ eventLogMutex' = t
    /\ pc' = [pc EXCEPT ![t] = "log_body"]
    /\ UNCHANGED <<logKind, logRet, eventLog, logHistory, boardMutex, clientsMutex>>
    /\ UNCHANGED <<G_board, G_batch, G_reg, G_msg, G_out, G_sup, G_gen, G_wire>>

LogLock(t) ==
    /\ pc[t] = "log_lock"
    /\ MutexAvailable(eventLogMutex)
    /\ eventLogMutex' = t
    /\ pc' = [pc EXCEPT ![t] = "log_body"]
    /\ UNCHANGED <<logKind, logRet, eventLog, logHistory, boardMutex, clientsMutex>>
    /\ UNCHANGED <<G_board, G_batch, G_reg, G_msg, G_out, G_sup, G_gen, G_wire>>

\* mutant of PushEvent: a full log drops the new record
PushEventDropsNewest(log, event) ==
    IF Len(log) >= EventLogCapacity THEN log ELSE Append(log, event)

\* push_back, then pop_front when the deque holds more than 100 events
PushEvent(log, event) ==
    LET pushed == Append(log, event)
    IN  IF Len(pushed) > EventLogCapacity THEN Tail(pushed) ELSE pushed

LogBody(t) ==
    /\ pc[t] = "log_body"
    /\ eventLog' = PushEvent(eventLog, [event_type |-> logKind[t], thread |-> t])
    /\ logHistory' = Append(logHistory, [event_type |-> logKind[t], thread |-> t])
    /\ eventLogMutex' = NoThread
    /\ Goto(t, logRet[t])
    /\ UNCHANGED <<boardMutex, clientsMutex>>
    /\ UNCHANGED <<G_board, G_batch, G_reg, G_msg, G_out, G_sup, G_gen, G_wire>>

\* ------------------------------------------------------------------------
\* server_run_loop: the accept loop
\* ------------------------------------------------------------------------
ClosedLabels == {"idle", "unreg_lock", "unreg_body", "dec_load", "dec_store", "done"}

\* descriptors of the connections that are accepted and not yet closed
OpenSockets == { CommunicationSocket[s] : s \in { x \in Sessions : pc[x] \notin ClosedLabels } }

\* while (g_serverState.serverRunning)
SupCheck ==
    /\ pc[SupervisorThread] = "check"
    /\ IF serverRunning
       THEN Goto(SupervisorThread, "accept")
       ELSE GoLog(SupervisorThread, "SERVER", "sd_lock")
    /\ UNCHANGED <<eventLog, logHistory, G_mutex, G_board, G_batch, G_reg, G_msg, G_out, G_sup, G_gen, G_wire>>

\* accept() returns a connection; a detached thread runs client_handler on it
Accept(s) ==
    /\ pc[SupervisorThread] = "accept"
    /\ pc[s] = "idle"
    /\ \A x \in Sessions : pc[x] = "idle" => s <= x
    /\ CommunicationSocket' = [CommunicationSocket EXCEPT
           ![s] = MinOf({ f \in 1..NumSessions : f \notin OpenSockets })]
    /\ pc' = [pc EXCEPT ![SupervisorThread] = "check", ![s] = "reg_lock"]
    /\ UNCHANGED <<logKind, logRet, eventLog, logHistory, G_mutex, G_board, G_batch, G_msg, G_out, G_sup, G_gen, G_wire>>
    /\ UNCHANGED <<activeClientSockets, activeConnections, nextClientId, myClientId, reg>>

\* ------------------------------------------------------------------------
\* client_handler: registration
\* ------------------------------------------------------------------------
RegLock(s) ==
    /\ pc[s] = "reg_lock"
    /\ MutexAvailable(clientsMutex)
    /\ clientsMutex' = s
    /\ Goto(s, "reg_body")
    /\ UNCHANGED <<eventLog, logHistory, boardMutex, eventLogMutex>>
    /\ UNCHANGED <<G_board, G_batch, G_reg, G_msg, G_out, G_sup, G_gen, G_wire>>

\* mutant of RegBody: the id counter is read and not advanced
RegBodyKeepsCounter(s) ==
    /\ pc[s] = "reg_body"
    /\ myClientId' = [myClientId EXCEPT ![s] = nextClientId]
    /\ nextClientId' = nextClientId
    /\ activeClientSockets' = Append(activeClientSockets, CommunicationSocket[s])
    /\ clientsMutex' = NoThread
    /\ Goto(s, "inc_load")
    /\ UNCHANGED <<eventLog, logHistory, boardMutex, eventLogMutex, activeConnections, CommunicationSocket, reg>>
    /\ UNCHANGED <<G_board, G_batch, G_msg, G_out, G_sup, G_gen, G_wire>>

\* myClientId = nextClientId++; activeClientSockets.push_back(socket)
RegBody(s) ==
    /\ pc[s] = "reg_body"
    /\ myClientId' = [myClientId EXCEPT ![s] = nextClientId]
    /\ nextClientId' = nextClientId + 1
    /\ activeClientSockets' = Append(activeClientSockets, CommunicationSocket[s])
    /\ clientsMutex' = NoThread
    /\ Goto(s, "inc_load")
    /\ UNCHANGED <<eventLog, logHistory, boardMutex, eventLogMutex, activeConnections, CommunicationSocket, reg>>
    /\ UNCHANGED <<G_board, G_batch, G_msg, G_out, G_sup, G_gen, G_wire>>

\* g_serverState.activeConnections++ outside any lock: a load and a store
IncLoad(s) ==
    /\ pc[s] = "inc_load"
    /\ reg' = [reg EXCEPT ![s] = activeConnections]
    /\ Goto(s, "inc_store")
    /\ UNCHANGED <<eventLog, logHistory, G_mutex, G_board, G_batch, G_msg, G_out, G_sup, G_gen, G_wire>>
    /\ UNCHANGED <<activeClientSockets, activeConnections, nextClientId, myClientId, CommunicationSocket>>

IncStore(s) ==
    /\ pc[s] = "inc_store"
    /\ activeConnections' = reg[s] + 1
    /\ GoLog(s, "CONNECT", "read")
    /\ UNCHANGED <<eventLog, logHistory, G_mutex, G_board, G_batch, G_msg, G_out, G_sup, G_gen, G_wire>>
    /\ UNCHANGED <<activeClientSockets, nextClientId, myClientId, CommunicationSocket, reg>>

\* ------------------------------------------------------------------------
\* read_message_until_terminator, parse_message and the dispatch of
\* client_handler / handle_client_request up to the first shared step
\* ------------------------------------------------------------------------
\* mutant of Dispatch: a message that fails to parse is logged and not answered
DispatchSilentError(s, p) ==
    IF p.ok /\ p.clientCmd = "QUIT"
    THEN /\ response' = [response EXCEPT ![s] = QuitResponse]
         /\ GoLog(s, "QUIT", "send")
    ELSE IF ~p.ok
    THEN /\ UNCHANGED response
         /\ GoLog(s, "ERROR", "read")
    ELSE IF p.clientCmd = "GET_BOARD"
    THEN /\ UNCHANGED response
         /\ GoLog(s, "GET_BOARD", "get_lock")
    ELSE IF p.clientCmd = "POST"
    THEN IF p.posts = <<>>
         THEN /\ response' = [response EXCEPT ![s] = handle_post_error(ErrNoPosts)]
              /\ GoLog(s, "POST_ERROR", "send")
         ELSE /\ UNCHANGED response
              /\ Goto(s, "post_lock")
    ELSE /\ response' = [response EXCEPT ![s] = InvalidCommandResponse(ErrGeneric)]
         /\ Goto(s, "send")

\* the branch taken for a parsed message, with the response where it is
\* already determined
Dispatch(s, p) ==
    IF p.ok /\ p.clientCmd = "QUIT"
    THEN /\ response' = [response EXCEPT ![s] = QuitResponse]
         /\ GoLog(s, "QUIT", "send")
    ELSE IF ~p.ok
    THEN /\ response' = [response EXCEPT ![s] = InvalidCommandResponse(p.error)]
         /\ GoLog(s, "ERROR", "send")
    ELSE IF p.clientCmd = "GET_BOARD"
    THEN /\ UNCHANGED response
         /\ GoLog(s, "GET_BOARD", "get_lock")
    ELSE IF p.clientCmd = "POST"
    THEN IF p.posts = <<>>
         THEN /\ response' = [response EXCEPT ![s] = handle_post_error(ErrNoPosts)]
              /\ GoLog(s, "POST_ERROR", "send")
         ELSE /\ UNCHANGED response
              /\ Goto(s, "post_lock")
    ELSE /\ response' = [response EXCEPT ![s] = InvalidCommandResponse(ErrGeneric)]
         /\ Goto(s, "send")

\* completedMessage = messageBuffer.substr(0, pos)
MessageBefore(buffer, pos) == Substr(buffer, 0, pos)

\* mutant of BufferAfter: what follows the terminator is thrown away
BufferAfterDropsRest(buffer, pos) == <<>>

\* mutant of BufferAfter: the terminator is left in the buffer
BufferAfterKeepsTerminator(buffer, pos) == EraseFront(buffer, pos)

\* messageBuffer.erase(0, pos + terminator.size())
BufferAfter(buffer, pos) == EraseFront(buffer, pos + Len(transmissionTerminator))

\* read_message_until_terminator returns true: the message leaves the buffer
Extract(s, buffer, pos) ==
    /\ CompletedMessage' = [CompletedMessage EXCEPT ![s] = MessageBefore(buffer, pos)]
    /\ RxBuffer' = [RxBuffer EXCEPT ![s] = BufferAfter(buffer, pos)]
    /\ taken' = [taken EXCEPT ![s] = Append(@, MessageBefore(buffer, pos))]

\* a complete message leaves the buffer and is parsed and dispatched
Deliver(s, buffer, pos) ==
    LET p == parse_message(MessageBefore(buffer, pos))
    IN  /\ Extract(s, buffer, pos)
        /\ parsed' = [parsed EXCEPT ![s] = p]
        /\ parsedPostTotal' = IF p.ok /\ p.clientCmd = "POST"
                              THEN parsedPostTotal + Len(p.posts) ELSE parsedPostTotal
        /\ Dispatch(s, p)

\* entry of read_message_until_terminator: a message already in the buffer
ReadBuffered(s) ==
    /\ pc[s] = "read"
    /\ LET pos == Find(RxBuffer[s], transmissionTerminator, 0)
       IN  IF pos # NPOS
           THEN Deliver(s, RxBuffer[s], pos) /\ UNCHANGED <<stream, recvCalls>>
           ELSE /\ Goto(s, "recv")
                /\ UNCHANGED <<G_msg, response>>
    /\ UNCHANGED <<eventLog, logHistory, G_mutex, G_board, G_batch, G_reg, G_sup, G_gen, G_wire>>
    /\ UNCHANGED <<connLost, sent, snap>>

\* recv() returns a chunk of at most 4096 bytes, which is appended
Recv(s, chunks, budget) ==
    /\ pc[s] = "recv"
    /\ ~connLost[s]
    /\ Len(taken[s]) < budget
    /\ \E chunk \in chunks :
          /\ Len(chunk) > 0 /\ Len(chunk) <= RecvChunkSize
          /\ stream' = [stream EXCEPT ![s] = @ \o chunk]
          /\ recvCalls' = [recvCalls EXCEPT ![s] = @ + 1]
          /\ LET buffer == RxBuffer[s] \o chunk
                 pos == Find(buffer, transmissionTerminator, 0)
             IN  IF pos # NPOS
                 THEN Deliver(s, buffer, pos)
                 ELSE /\ RxBuffer' = [RxBuffer EXCEPT ![s] = buffer]
                      /\ UNCHANGED <<G_ctl, CompletedMessage, parsed, taken, parsedPostTotal, response>>
    /\ UNCHANGED <<eventLog, logHistory, G_mutex, G_board, G_batch, G_reg, G_sup, G_gen, G_wire>>
    /\ UNCHANGED <<connLost, sent, snap>>

\* mutant of RecvClosed: the session goes to its cleanup without a record
RecvClosedSilently(s) ==
    /\ pc[s] = "recv"
    /\ connLost' = [connLost EXCEPT ![s] = TRUE]
    /\ Goto(s, "close")
    /\ UNCHANGED <<eventLog, logHistory, G_mutex, G_board, G_batch, G_reg, G_msg, G_sup, G_gen, G_wire>>
    /\ UNCHANGED <<response, sent, snap>>

\* recv() returns 0 (peer closed) or fails with an error other than EINTR
RecvClosed(s) ==
    /\ pc[s] = "recv"
    /\ connLost' = [connLost EXCEPT ![s] = TRUE]
    /\ GoLog(s, "DISCONNECT", "close")
    /\ UNCHANGED <<eventLog, logHistory, G_mutex, G_board, G_batch, G_reg, G_msg, G_sup, G_gen, G_wire>>
    /\ UNCHANGED <<response, sent, snap>>


\* ------------------------------------------------------------------------
\* post_handler
\* ------------------------------------------------------------------------
\* mutant of PostLockAvailable: post_handler appends without waiting for the lock
PostLockMissing == TRUE

\* std::lock_guard<std::mutex> lock(g_serverState.boardMutex) of post_handler
PostLockAvailable == MutexAvailable(boardMutex)

PostLock(s) ==
    /\ pc[s] = "post_lock"
    /\ PostLockAvailable
    /\ boardMutex' = s
    /\ loopIdx' = [loopIdx EXCEPT ![s] = 0]
    /\ batches' = Append(batches, [by |-> s, posts |-> parsed[s].posts])
    /\ curBatch' = [curBatch EXCEPT ![s] = Len(batches) + 1]
    /\ Goto(s, "post_loop")
    /\ UNCHANGED <<eventLog, logHistory, eventLogMutex, clientsMutex>>
    /\ UNCHANGED <<G_board, G_reg, G_msg, G_out, G_sup, G_gen, G_wire>>

\* mutant of CountAfterPush: the counter is incremented once per transmission
CountOncePerBatch(total, i) == IF i = 0 THEN total + 1 ELSE total

\* g_serverState.totalMessagesReceived++ in iteration i of the loop
CountAfterPush(total, i) == total + 1

\* Post p = parsed.posts[i]; p.clientId = clientId
StoredPost(posts, i, clientId) == [posts[i + 1] EXCEPT !.clientId = clientId]

\* one iteration of the loop; the lock_guard is released when the loop ends
PostPush(s) ==
    /\ pc[s] = "post_loop"
    /\ LET i == loopIdx[s]
           posts == parsed[s].posts
       IN  /\ messageBoard' = Append(messageBoard, StoredPost(posts, i, myClientId[s]))
           /\ totalMessagesReceived' = CountAfterPush(totalMessagesReceived, i)
           /\ batchOf' = Append(batchOf, curBatch[s])
           /\ loopIdx' = [loopIdx EXCEPT ![s] = i + 1]
           /\ IF i + 1 < Len(posts)
              THEN /\ Goto(s, "post_loop")
                   /\ UNCHANGED <<boardMutex, response>>
              ELSE /\ boardMutex' = NoThread
                   /\ response' = [response EXCEPT ![s] = build_post_ok]
                   /\ GoLog(s, "POST", "send")
    /\ UNCHANGED <<eventLog, logHistory, eventLogMutex, clientsMutex, batches, curBatch>>
    /\ UNCHANGED <<G_reg, G_msg, G_sup, connLost, sent, snap, G_gen, G_wire>>

\* ------------------------------------------------------------------------
\* get_board_handler
\* ------------------------------------------------------------------------
\* mutant of GetLockAvailable: get_board_handler reads without waiting for the lock
GetLockMissing == TRUE

\* std::lock_guard<std::mutex> lock(g_serverState.boardMutex) of get_board_handler
GetLockAvailable == MutexAvailable(boardMutex)

GetLock(s) ==
    /\ pc[s] = "get_lock"
    /\ GetLockAvailable
    /\ boardMutex' = s
    /\ Goto(s, "get_body")
    /\ UNCHANGED <<eventLog, logHistory, eventLogMutex, clientsMutex>>
    /\ UNCHANGED <<G_board, G_batch, G_reg, G_msg, G_out, G_sup, G_gen, G_wire>>

\* the two filter tests of the loop
PassesFilters(post, authorFilter, titleFilter) ==
    /\ ~(authorFilter # <<>> /\ post.author # authorFilter)
    /\ ~(titleFilter # <<>> /\ post.title # titleFilter)

GetBody(s) ==
    /\ pc[s] = "get_body"
    /\ response' = [response EXCEPT
           ![s] = BoardResponse(messageBoard, parsed[s].filter_author, parsed[s].filter_title)]
    /\ snap' = [snap EXCEPT ![s] = { i \in 1..Len(messageBoard) :
           PassesFilters(messageBoard[i], parsed[s].filter_author, parsed[s].filter_title) }]
    /\ boardMutex' = NoThread
    /\ Goto(s, "send")
    /\ UNCHANGED <<eventLog, logHistory, eventLogMutex, clientsMutex, connLost, sent>>
    /\ UNCHANGED <<G_board, G_batch, G_reg, G_msg, G_sup, G_gen, G_wire>>

\* ------------------------------------------------------------------------
\* send_all_bytes as called for a response, and the end of the loop body
\* ------------------------------------------------------------------------
\* mutant of AfterSend: a message that failed to parse also ends the session
AfterSendEndsOnError(s) ==
    IF ~parsed[s].ok \/ parsed[s].clientCmd = "QUIT" THEN "close" ELSE "read"

\* client_handler leaves its loop after the goodbye, else reads again
AfterSend(s) == IF parsed[s].ok /\ parsed[s].clientCmd = "QUIT" THEN "close" ELSE "read"

\* the bytes of the response from position from on
Remaining(s, from) == SubSeq(response[s], from + 1, Len(response[s]))

\* a write of send(): the calling thread, the request answered (0 for the
\* shutdown notice) and the bytes the connection took
Written(t, req, bytes) == [by |-> t, req |-> req, bytes |-> bytes]

\* send() takes every remaining byte of the response: the loop ends
SendOk(s) ==
    /\ pc[s] = "send"
    /\ ~connLost[s]
    /\ sent' = [sent EXCEPT ![s] = Append(@, [req |-> Len(taken[s]), bytes |-> response[s]])]
    /\ wire' = [wire EXCEPT ![s] = Append(@, Written(s, Len(taken[s]), Remaining(s, totalSent[s])))]
    /\ totalSent' = [totalSent EXCEPT ![s] = 0]
    /\ Goto(s, AfterSend(s))
    /\ UNCHANGED <<eventLog, logHistory, G_mutex, G_board, G_batch, G_reg, G_msg, G_sup, G_gen>>
    /\ UNCHANGED <<response, connLost, snap>>

\* send() fails with an error other than EINTR: send_all_bytes returns -1,
\* which its callers do not look at
SendFail(s) ==
    /\ pc[s] = "send"
    /\ connLost' = [connLost EXCEPT ![s] = TRUE]
    /\ totalSent' = [totalSent EXCEPT ![s] = 0]
    /\ Goto(s, AfterSend(s))
    /\ UNCHANGED <<eventLog, logHistory, G_mutex, G_board, G_batch, G_reg, G_msg, G_sup, G_gen, wire>>
    /\ UNCHANGED <<response, sent, snap>>

\* ------------------------------------------------------------------------
\* client_handler: cleanup
\* ------------------------------------------------------------------------
CloseSocket(s) ==
    /\ pc[s] = "close"
    /\ Goto(s, "unreg_lock")
    /\ UNCHANGED <<eventLog, logHistory, G_mutex, G_board, G_batch, G_reg, G_msg, G_out, G_sup, G_gen, G_wire>>

UnregLock(s) ==
    /\ pc[s] = "unreg_lock"
    /\ MutexAvailable(clientsMutex)
    /\ clientsMutex' = s
    /\ Goto(s, "unreg_body")
    /\ UNCHANGED <<eventLog, logHistory, boardMutex, eventLogMutex>>
    /\ UNCHANGED <<G_board, G_batch, G_reg, G_msg, G_out, G_sup, G_gen, G_wire>>

\* mutant of EraseFirst: the entry found is not erased
EraseNothing(seq, x) == seq

\* std::find and erase: the first entry equal to the socket, if any
EraseFirst(seq, x) ==
    LET hits == { i \in 1..Len(seq) : seq[i] = x }
    IN  IF hits = {} THEN seq
        ELSE SubSeq(seq, 1, MinOf(hits) - 1) \o SubSeq(seq, MinOf(hits) + 1, Len(seq))

UnregBody(s) ==
    /\ pc[s] = "unreg_body"
    /\ activeClientSockets' = EraseFirst(activeClientSockets, CommunicationSocket[s])
    /\ clientsMutex' = NoThread
    /\ Goto(s, "dec_load")
    /\ UNCHANGED <<eventLog, logHistory, boardMutex, eventLogMutex>>
    /\ UNCHANGED <<activeConnections, nextClientId, myClientId, CommunicationSocket, reg>>
    /\ UNCHANGED <<G_board, G_batch, G_msg, G_out, G_sup, G_gen, G_wire>>

\* g_serverState.activeConnections-- outside any lock: a load and a store
DecLoad(s) ==
    /\ pc[s] = "dec_load"
    /\ reg' = [reg EXCEPT ![s] = activeConnections]
    /\ Goto(s, "dec_store")
    /\ UNCHANGED <<eventLog, logHistory, G_mutex, G_board, G_batch, G_msg, G_out, G_sup, G_gen, G_wire>>
    /\ UNCHANGED <<activeClientSockets, activeConnections, nextClientId, myClientId, CommunicationSocket>>

DecStore(s) ==
    /\ pc[s] = "dec_store"
    /\ activeConnections' = reg[s] - 1
    /\ Goto(s, "done")
    /\ UNCHANGED <<eventLog, logHistory, G_mutex, G_board, G_batch, G_msg, G_out, G_sup, G_gen, G_wire>>
    /\ UNCHANGED <<activeClientSockets, nextClientId, myClientId, CommunicationSocket, reg>>


\* ------------------------------------------------------------------------
\* server_run_loop: shutdown
\* ------------------------------------------------------------------------
BroadcastAttempts == 3

ShutdownMessage ==
    GoodbyeAuthor \o fieldDelimiter \o ShutdownTitle \o fieldDelimiter \o ShutdownText
        \o transmissionTerminator

\* lock_guard on clientsMutex; clientsToDisconnect = activeClientSockets
SdLock ==
    /\ pc[SupervisorThread] = "sd_lock"
    /\ MutexAvailable(clientsMutex)
    /\ clientsMutex' = SupervisorThread
    /\ clientsToDisconnect' = activeClientSockets
    /\ attempt' = 0
    /\ Goto(SupervisorThread, "sd_send")
    /\ UNCHANGED <<eventLog, logHistory, boardMutex, eventLogMutex, serverRunning, clicks>>
    /\ UNCHANGED <<G_board, G_batch, G_reg, G_msg, G_out, G_gen, G_wire>>

\* the sessions whose open connection has descriptor f and can still be written
Reachable(f) ==
    { s \in Sessions : pc[s] \notin ClosedLabels /\ CommunicationSocket[s] = f /\ ~connLost[s] }

\* one attempt of the broadcast: send_all_bytes to every socket of the
\* snapshot, then a sleep; the lock is released after the last attempt
SdSend ==
    /\ pc[SupervisorThread] = "sd_send"
    /\ sent' = [s \in Sessions |->
                  IF \E k \in 1..Len(clientsToDisconnect) : s \in Reachable(clientsToDisconnect[k])
                  THEN Append(sent[s], [req |-> 0, bytes |-> ShutdownMessage])
                  ELSE sent[s]]
    /\ wire' = [s \in Sessions |->
                  IF \E k \in 1..Len(clientsToDisconnect) : s \in Reachable(clientsToDisconnect[k])
                  THEN Append(wire[s], Written(SupervisorThread, 0, ShutdownMessage))
                  ELSE wire[s]]
    /\ attempt' = attempt + 1
    /\ IF attempt + 1 < BroadcastAttempts
       THEN /\ Goto(SupervisorThread, "sd_send")
            /\ UNCHANGED clientsMutex
       ELSE /\ Goto(SupervisorThread, "sd_close")
            /\ clientsMutex' = NoThread
    /\ UNCHANGED <<eventLog, logHistory, boardMutex, eventLogMutex, serverRunning, clicks, clientsToDisconnect>>
    /\ UNCHANGED <<G_board, G_batch, G_reg, G_msg, response, connLost, snap, G_gen, totalSent>>

\* sleep, close(ListeningSocket), then the last log entry
SdClose ==
    /\ pc[SupervisorThread] = "sd_close"
    /\ GoLog(SupervisorThread, "SERVER", "sd_done")
    /\ UNCHANGED <<eventLog, logHistory, G_mutex, G_board, G_batch, G_reg, G_msg, G_out, G_sup, G_gen, G_wire>>

\* ------------------------------------------------------------------------
\* The monitor (server_gui.cpp): the buttons that write to the shared state
\* ------------------------------------------------------------------------
TestAuthors == { <<"A","l","i","c","e">> }
TestTitle == <<"H","e","l","l","o"," ","W","o","r","l","d">>
TestMessage == <<"T","h","i","s"," ","i","s"," ","a"," ","t","e","s","t"," ","m","e","s","s","a","g","e"," ","t","o"," ","c","h","e","c","k"," ","t","h","e"," ","U","I"," ","l","a","y","o","u","t",".">>

\* the button is pressed and its callback takes the board lock
TestLock ==
    /\ pc[ObserverThread] = "gui_idle"
    /\ clicks < MaxClicks
    /\ MutexAvailable(boardMutex)
    /\ boardMutex' = ObserverThread
    /\ clicks' = clicks + 1
    /\ loopIdx' = [loopIdx EXCEPT ![ObserverThread] = 0]
    /\ Goto(ObserverThread, "test_loop")
    /\ UNCHANGED <<eventLog, logHistory, eventLogMutex, clientsMutex, serverRunning, clientsToDisconnect, attempt>>
    /\ UNCHANGED <<G_board, batches, curBatch, G_reg, G_msg, G_out, G_gen, G_wire>>

\* mutant of TestPushed: the new post is put in front (newest first)
TestPushedFront(board, p) == <<p>> \o board

\* the board after one iteration of the callback's loop
TestPushed(board, p) == Append(board, p)

\* one of the 5 posts; logEvent is called after the loop with the lock held
TestPush ==
    /\ pc[ObserverThread] = "test_loop"
    /\ \E a \in TestAuthors :
          messageBoard' = TestPushed(messageBoard,
              [author |-> a, title |-> TestTitle, message |-> TestMessage, clientId |-> TestClientId])
    /\ totalMessagesReceived' = totalMessagesReceived + 1
    /\ batchOf' = Append(batchOf, 0)
    /\ loopIdx' = [loopIdx EXCEPT ![ObserverThread] = @ + 1]
    /\ IF loopIdx[ObserverThread] + 1 < TestPostCount
       THEN Goto(ObserverThread, "test_loop")
       ELSE GoLog(ObserverThread, "TEST", "test_unlock")
    /\ UNCHANGED <<eventLog, logHistory, G_mutex, batches, curBatch, G_reg, G_msg, G_out, G_sup, G_gen, G_wire>>

\* the callback returns and its lock_guard releases the board lock
TestUnlock ==
    /\ pc[ObserverThread] = "test_unlock"
    /\ boardMutex' = NoThread
    /\ Goto(ObserverThread, "gui_idle")
    /\ UNCHANGED <<eventLog, logHistory, eventLogMutex, clientsMutex>>
    /\ UNCHANGED <<G_board, G_batch, G_reg, G_msg, G_out, G_sup, G_gen, G_wire>>

\* the shutdown button: serverRunning = false; screen.Exit()
ClickShutdown ==
    /\ pc[ObserverThread] = "gui_idle"
    /\ serverRunning' = FALSE
    /\ Goto(ObserverThread, "gui_exit")
    /\ UNCHANGED <<eventLog, logHistory, G_mutex, G_board, G_batch, G_reg, G_msg, G_out, G_gen, G_wire>>
    /\ UNCHANGED <<clicks, clientsToDisconnect, attempt>>

\* ------------------------------------------------------------------------
\* Client transmissions (without their terminator)
\* ------------------------------------------------------------------------
MsgGetAll == StrGET_BOARD
MsgGetByA == StrGET_BOARD \o fieldDelimiter \o <<"A">>
MsgPostOne ==
    StrPOST \o fieldDelimiter \o <<"A","l","i","c","e">> \o fieldDelimiter \o <<"H","i">>
        \o fieldDelimiter \o <<"h","e","l","l","o">>
MsgPostAB ==
    StrPOST \o fieldDelimiter \o <<"A">> \o fieldDelimiter \o <<"T","1">> \o fieldDelimiter
        \o <<"B","1">> \o messageSeperator \o <<"B">> \o fieldDelimiter \o <<"T","2">>
        \o fieldDelimiter \o <<"B","2">>
MsgPostAA ==
    StrPOST \o fieldDelimiter \o <<"A">> \o fieldDelimiter \o <<"T","1">> \o fieldDelimiter
        \o <<"B","1">> \o fieldDelimiter \o <<"A">> \o fieldDelimiter \o <<"T","2">>
        \o fieldDelimiter \o <<"B","3">>
MsgPostRepeated ==
    StrPOST \o fieldDelimiter \o <<"A">> \o fieldDelimiter \o <<"T","1">> \o fieldDelimiter
        \o <<"B","1">> \o messageSeperator \o StrPOST \o fieldDelimiter \o <<"B">>
        \o fieldDelimiter \o <<"T","2">> \o fieldDelimiter \o <<"B","2">>
MsgPostEmptyBody ==
    StrPOST \o fieldDelimiter \o <<"A","l","i","c","e">> \o fieldDelimiter \o <<"T">>
        \o fieldDelimiter
MsgPostSecondEmpty ==
    StrPOST \o fieldDelimiter \o <<"A">> \o fieldDelimiter \o <<"T","1">> \o fieldDelimiter
        \o <<"B","1">> \o fieldDelimiter \o <<"B">> \o fieldDelimiter \o <<"T","2">>
        \o fieldDelimiter
MsgFrobnicate == <<"F","R","O","B","N","I","C","A","T","E">>
\* a server response token and a lower-case spelling in the place of the command
MsgInvalidToken == StrINVALID_COMMAND
MsgLowerQuit == <<"q","u","i","t">>
MsgQuit == StrQUIT

Transmission(msg) == msg \o transmissionTerminator

\* what the clients of the concurrent specification write, one transmission per chunk
ConcChunks ==
    { Transmission(m) : m \in {MsgPostAA, MsgGetByA} }

\* what the client of the single-session specification writes: every kind of
\* transmission, alone or coalesced with a following QUIT
SessionMsgs ==
    {MsgGetAll, MsgGetByA, MsgPostOne, MsgPostAB, MsgPostRepeated, MsgPostEmptyBody,
     MsgPostSecondEmpty, MsgFrobnicate, MsgInvalidToken, MsgLowerQuit, MsgQuit, <<>>}
SessionChunks ==
    { Transmission(m) : m \in SessionMsgs }
        \cup { Transmission(m) \o Transmission(MsgQuit) : m \in {MsgPostOne, MsgFrobnicate} }

\* ------------------------------------------------------------------------
\* Specifications
\* ------------------------------------------------------------------------
\* the steps of a session that do not depend on what the peer does
SessionStep(s) ==
    \/ RegLock(s) \/ RegBody(s) \/ IncLoad(s) \/ IncStore(s)
    \/ ReadBuffered(s)
    \/ PostLock(s) \/ PostPush(s)
    \/ GetLock(s) \/ GetBody(s)
    \/ SendOk(s)
    \/ CloseSocket(s) \/ UnregLock(s) \/ UnregBody(s) \/ DecLoad(s) \/ DecStore(s)

\* the standalone server: the accept loop and NumSessions concurrent sessions,
\* each taking one transmission at a time from its peer
Next ==
    \/ SupCheck
    \/ \E s \in Sessions : Accept(s)
    \/ \E s \in Sessions : SessionStep(s)
    \/ \E s \in Sessions : Recv(s, ConcChunks, MaxMsgs - 1)
    \/ \E s \in Sessions : RecvClosed(s)
    \/ \E t \in Threads : LogLock(t) \/ LogBody(t)

Spec == Init /\ [][Next]_vars

\* one session and every kind of transmission, with sends that may fail
NextSession ==
    \/ SupCheck
    \/ Accept(1)
    \/ SessionStep(1)
    \/ Recv(1, SessionChunks, MaxMsgs)
    \/ RecvClosed(1)
    \/ SendFail(1)
    \/ \E t \in Threads : LogLock(t) \/ LogBody(t)

SpecSession == Init /\ [][NextSession]_vars


\* the server with its monitor: one session, the test-posts and shutdown
\* buttons, and the supervisor's shutdown sequence
GuiChunks == { Transmission(m) : m \in {MsgPostAA, MsgGetByA} }

NextGui ==
    \/ SupCheck
    \/ Accept(1)
    \/ SessionStep(1)
    \/ Recv(1, GuiChunks, MaxMsgs - 1)
    \/ RecvClosed(1)
    \/ \E t \in Threads : LogLock(t) \/ LogBody(t)
    \/ TestLock \/ TestPush \/ TestUnlock \/ ClickShutdown
    \/ SdLock \/ SdSend \/ SdClose

SpecGui == Init /\ [][NextGui]_vars


\* ------------------------------------------------------------------------
\* read_message_until_terminator alone, called again and again on one
\* connection whose peer writes arbitrary pieces
\* ------------------------------------------------------------------------
FramePieces ==
    { <<"a">>, <<"}">>, <<"{">>, <<"}","&","{">>, <<"}","}","&">>, <<"{","{">>,
      <<"a">> \o transmissionTerminator \o <<"b">>,
      transmissionTerminator \o transmissionTerminator }

\* the call, up to the first recv
FrameCall(s) ==
    /\ pc[s] = "idle"
    /\ ~connLost[s]
    /\ LET pos == Find(RxBuffer[s], transmissionTerminator, 0)
       IN  IF pos # NPOS
           THEN Extract(s, RxBuffer[s], pos) /\ UNCHANGED G_ctl
           ELSE Goto(s, "recv") /\ UNCHANGED <<RxBuffer, CompletedMessage, taken>>
    /\ UNCHANGED <<eventLog, logHistory, G_mutex, G_board, G_batch, G_reg, G_out, G_sup, G_gen, G_wire>>
    /\ UNCHANGED <<parsed, stream, recvCalls, parsedPostTotal>>

\* recv returns a chunk; the call returns true when the terminator is there
FrameRecv(s) ==
    /\ pc[s] = "recv"
    /\ Len(stream[s]) < MaxStream
    /\ \E chunk \in FramePieces :
          /\ Len(chunk) <= RecvChunkSize
          /\ stream' = [stream EXCEPT ![s] = @ \o chunk]
          /\ recvCalls' = [recvCalls EXCEPT ![s] = @ + 1]
          /\ LET buffer == RxBuffer[s] \o chunk
                 pos == Find(buffer, transmissionTerminator, 0)
             IN  IF pos # NPOS
                 THEN Extract(s, buffer, pos) /\ Goto(s, "idle")
                 ELSE /\ RxBuffer' = [RxBuffer EXCEPT ![s] = buffer]
                      /\ UNCHANGED <<G_ctl, CompletedMessage, taken>>
    /\ UNCHANGED <<eventLog, logHistory, G_mutex, G_board, G_batch, G_reg, G_out, G_sup, G_gen, G_wire>>
    /\ UNCHANGED <<parsed, parsedPostTotal>>

\* recv returns 0 or an error: the call returns false
FrameClosed(s) ==
    /\ pc[s] = "recv"
    /\ connLost' = [connLost EXCEPT ![s] = TRUE]
    /\ Goto(s, "idle")
    /\ UNCHANGED <<eventLog, logHistory, G_mutex, G_board, G_batch, G_reg, G_msg, G_sup, G_gen, G_wire>>
    /\ UNCHANGED <<response, sent, snap>>

NextFrame == FrameCall(1) \/ FrameRecv(1) \/ FrameClosed(1)

SpecFrame == Init /\ [][NextFrame]_vars

\* ------------------------------------------------------------------------
\* parse_message alone, applied to a generated message
\* ------------------------------------------------------------------------
ParseCommands ==
    { StrPOST, StrGET_BOARD, StrQUIT, StrINVALID_COMMAND, StrPOST_OK, <<"p","o","s","t">> }
ParseFieldValues == { <<>>, <<"}">> }
ParseSeparators == { fieldDelimiter, messageSeperator }
ParseTails == { <<>>, transmissionTerminator, transmissionTerminator \o StrQUIT }

\* command, then every field behind its separator
RECURSIVE JoinFields(_, _, _)
JoinFields(fields, seps, i) ==
    IF i > Len(fields) THEN <<>>
    ELSE seps[i] \o fields[i] \o JoinFields(fields, seps, i + 1)

ParseGen ==
    /\ genFields = <<>>
    /\ \E cmd \in ParseCommands, n \in 0..MaxFields, tail \in ParseTails :
         \E fields \in [1..n -> ParseFieldValues], seps \in [1..n -> ParseSeparators] :
            LET msg == cmd \o JoinFields(fields, seps, 1) \o tail
            IN  /\ (cmd # StrPOST => n <= MaxOtherFields)
                /\ genFields' = <<cmd>> \o fields
                /\ CompletedMessage' = [CompletedMessage EXCEPT ![1] = msg]
                /\ parsed' = [parsed EXCEPT ![1] = parse_message(msg)]
    /\ UNCHANGED <<eventLog, logHistory, G_mutex, G_board, G_batch, G_reg, G_out, G_sup, G_ctl>>
    /\ UNCHANGED <<RxBuffer, stream, recvCalls, taken, parsedPostTotal, splitCall, G_wire>>

NextParse == ParseGen

SpecParse == Init /\ [][NextParse]_vars

\* ------------------------------------------------------------------------
\* get_board_handler alone, called on a board and a pair of filters
\* ------------------------------------------------------------------------
BoardAuthors == { <<"A">>, <<"a">>, <<"A","B">> }
BoardTitles == { <<"T">>, <<"t">> }
BoardBody == <<"x">>
BoardPosts ==
    { [author |-> a, title |-> t, message |-> BoardBody, clientId |-> 1] :
          a \in BoardAuthors, t \in BoardTitles }
AuthorFilters == { <<>>, <<"A">>, <<"B">> }
TitleFilters == { <<>>, <<"T">> }

\* a board as earlier POSTs have left it, and a GET_BOARD with filters parsed
BoardFill ==
    /\ pc[1] = "idle"
    /\ \E n \in 0..MaxBoard :
         \E board \in [1..n -> BoardPosts], fa \in AuthorFilters, ft \in TitleFilters :
            /\ messageBoard' = board
            /\ totalMessagesReceived' = n
            /\ batchOf' = [i \in 1..n |-> 0]
            /\ parsed' = [parsed EXCEPT ![1] =
                   [EmptyParseResult EXCEPT !.ok = TRUE, !.clientCmd = "GET_BOARD",
                                            !.filter_author = fa, !.filter_title = ft]]
    /\ Goto(1, "get_lock")
    /\ UNCHANGED <<eventLog, logHistory, G_mutex, G_batch, G_reg, G_out, G_sup, G_gen, G_wire>>
    /\ UNCHANGED <<RxBuffer, CompletedMessage, stream, recvCalls, taken, parsedPostTotal>>

NextBoard == BoardFill \/ GetLock(1) \/ GetBody(1)

SpecBoard == Init /\ [][NextBoard]_vars


\* ------------------------------------------------------------------------
\* SharedServerState::logEvent alone, called by every thread on a log that
\* earlier connections have nearly filled
\* ------------------------------------------------------------------------
\* the records of earlier connections that came and went
PriorEvents ==
    [i \in 1..(EventLogCapacity - MaxLogCalls) |->
        [event_type |-> IF i % 2 = 1 THEN "CONNECT" ELSE "DISCONNECT", thread |-> 1]]

InitLog == InitState(PriorEvents)

\* what each thread logs: the supervisor SERVER, the monitor TEST, a session POST
LogKindOf(t) ==
    IF t = SupervisorThread THEN "SERVER" ELSE IF t = ObserverThread THEN "TEST" ELSE "POST"

\* the logEvent calls thread t has made or is making
CallsOf(t) ==
    Cardinality({ j \in (Len(PriorEvents) + 1)..Len(logHistory) : logHistory[j].thread = t })
        + (IF pc[t] \in {"log_lock", "log_body"} THEN 1 ELSE 0)

\* thread t calls logEvent and comes back to where it is
LogCall(t) ==
    /\ pc[t] \notin {"log_lock", "log_body"}
    /\ CallsOf(t) < MaxLogCalls
    /\ GoLog(t, LogKindOf(t), pc[t])
    /\ UNCHANGED <<eventLog, logHistory, G_mutex, G_board, G_batch, G_reg, G_msg, G_out, G_sup, G_gen, G_wire>>

\* the supervisor, one session and the monitor
LogThreads == {SupervisorThread, 1, ObserverThread}

NextLog == \E t \in LogThreads : LogCall(t) \/ LogLock(t) \/ LogBody(t)

SpecLog == InitLog /\ [][NextLog]_vars


\* ------------------------------------------------------------------------
\* post_handler alone, as handle_client_request calls it with any parsed POST
\* ------------------------------------------------------------------------
ErrException == <<"E","x","c","e","p","t","i","o","n"," ","o","c","c","u","r","r","e","d"," ","w","h","i","l","e"," ","a","d","d","i","n","g"," ","p","o","s","t","s",":"," ">>
\* std::bad_alloc::what() of the standard library the server is built with
BadAllocWhat == <<"s","t","d",":",":","b","a","d","_","a","l","l","o","c">>

\* the copy of the post or the push_back of iteration i throws: the
\* lock_guard is released, the catch block sets errorDetails and returns
\* false, and handle_client_request builds the POST_ERROR response
PostThrow(s) ==
    /\ pc[s] = "post_loop"
    /\ boardMutex' = NoThread
    /\ response' = [response EXCEPT ![s] = handle_post_error(ErrException \o BadAllocWhat)]
    /\ GoLog(s, "POST_ERROR", "send")
    /\ UNCHANGED <<eventLog, logHistory, eventLogMutex, clientsMutex>>
    /\ UNCHANGED <<G_board, G_batch, G_reg, G_msg, G_sup, connLost, sent, snap, G_gen, G_wire>>

PostValues ==
    { MakePost(<<"A">>, <<"T">>, <<"x">>), MakePost(<<>>, <<>>, <<"y">>) }

\* handle_client_request is entered with an ok POST of 0..MaxBatch posts
PostCall(s) ==
    /\ pc[s] = "idle"
    /\ Len(sent[s]) < MaxPostCalls
    /\ \E n \in 0..MaxBatch : \E posts \in [1..n -> PostValues] :
          LET p == [EmptyParseResult EXCEPT !.ok = TRUE, !.clientCmd = "POST", !.posts = posts]
          IN  /\ parsed' = [parsed EXCEPT ![s] = p]
              /\ parsedPostTotal' = parsedPostTotal + n
              /\ Dispatch(s, p)
    /\ UNCHANGED <<eventLog, logHistory, G_mutex, G_board, G_batch, G_reg, G_sup, G_gen, G_wire>>
    /\ UNCHANGED <<RxBuffer, CompletedMessage, stream, recvCalls, taken, connLost, sent, snap>>

\* the response is written and handle_client_request returns
PostReturn(s) ==
    /\ pc[s] = "send"
    /\ sent' = [sent EXCEPT ![s] = Append(@, [req |-> Len(@) + 1, bytes |-> response[s]])]
    /\ wire' = [wire EXCEPT ![s] = Append(@, Written(s, Len(sent[s]) + 1, response[s]))]
    /\ Goto(s, "idle")
    /\ UNCHANGED <<eventLog, logHistory, G_mutex, G_board, G_batch, G_reg, G_msg, G_sup, G_gen, totalSent>>
    /\ UNCHANGED <<response, connLost, snap>>

NextPost ==
    \/ PostCall(1) \/ PostLock(1) \/ PostPush(1) \/ PostThrow(1) \/ PostReturn(1)
    \/ LogLock(1) \/ LogBody(1)

SpecPost == Init /\ [][NextPost]_vars


\* ------------------------------------------------------------------------
\* Every response builder on one connection: transmissions whose fields are
\* made of the bytes of the separators, allocation failures in post_handler,
\* and the shutdown broadcast
\* ------------------------------------------------------------------------
BraceField == <<"}","}","&","{">>

WireMsgs ==
    { StrPOST \o fieldDelimiter \o <<"}">> \o fieldDelimiter \o BraceField \o fieldDelimiter \o <<"{","{">>,
      StrPOST \o fieldDelimiter \o <<>> \o fieldDelimiter \o <<>> \o fieldDelimiter \o BraceField
          \o messageSeperator \o <<"&">> \o fieldDelimiter \o <<"{">> \o fieldDelimiter \o <<"}">>,
      StrPOST \o fieldDelimiter \o BraceField,
      StrGET_BOARD,
      StrGET_BOARD \o fieldDelimiter \o <<"}">>,
      BraceField,
      <<>>,
      StrQUIT }

WireChunks == { Transmission(m) : m \in WireMsgs }

NextWire ==
    \/ SupCheck
    \/ Accept(1)
    \/ SessionStep(1)
    \/ Recv(1, WireChunks, MaxMsgs)
    \/ RecvClosed(1)
    \/ PostThrow(1)
    \/ \E t \in Threads : LogLock(t) \/ LogBody(t)
    \/ ClickShutdown
    \/ SdLock \/ SdSend \/ SdClose

SpecWire == Init /\ [][NextWire]_vars


\* ------------------------------------------------------------------------
\* split_fields_until alone, called on a text and every endPos up to its size
\* ------------------------------------------------------------------------
SplitPieces == { <<"a">>, <<"}">>, fieldDelimiter }

RECURSIVE Concat(_, _)
Concat(pieces, i) == IF i > Len(pieces) THEN <<>> ELSE pieces[i] \o Concat(pieces, i + 1)

SplitCall ==
    /\ splitCall = NoCall
    /\ \E n \in 0..MaxPieces : \E pieces \in [1..n -> SplitPieces] :
          LET text == Concat(pieces, 1)
          IN  \E endPos \in 0..Len(text) :
                 splitCall' = [text |-> text, endPos |-> endPos,
                               out |-> split_fields_until(text, fieldDelimiter, endPos)]
    /\ UNCHANGED <<eventLog, logHistory, G_mutex, G_board, G_batch, G_reg, G_msg, G_out, G_sup, G_ctl>>
    /\ UNCHANGED <<genFields, G_wire>>

NextSplit == SplitCall

SpecSplit == Init /\ [][NextSplit]_vars


\* the single-session specification with the scheduler's fairness: a step of
\* the session's thread that stays possible is eventually taken; nothing is
\* assumed of the peer
SpecSessionFair ==
    Init /\ [][NextSession]_vars /\ WF_vars(SessionStep(1) \/ LogLock(1) \/ LogBody(1))


\* the server with its monitor under the scheduler's fairness: a step of a
\* running thread that stays possible is eventually taken; nothing is assumed
\* of the peer, of incoming connections or of the person at the monitor
SpecGuiFair ==
    /\ Init /\ [][NextGui]_vars
    /\ WF_vars(SessionStep(1))
    /\ \A t \in Threads : WF_vars(LogLock(t) \/ LogBody(t))
    /\ WF_vars(TestPush \/ TestUnlock)
    /\ WF_vars(SupCheck \/ SdLock \/ SdSend \/ SdClose)


\* ------------------------------------------------------------------------
\* Properties
\* ------------------------------------------------------------------------
Last(seq) == seq[Len(seq)]

IsPrefix(a, b) == Len(a) <= Len(b) /\ SubSeq(b, 1, Len(a)) = a

\* no session is inside post_handler
NoPostInProgress == \A s \in Sessions : pc[s] \notin {"post_lock", "post_loop"}

PositionsOf(b) == { i \in 1..Len(messageBoard) : batchOf[i] = b }

\* C2: the posts of one POST transmission are contiguous on the board and in
\* the order of the transmission, and whole batches lie in the order in which
\* their sessions took boardMutex
C2_BatchesContiguous ==
    /\ \A i, j \in 1..Len(messageBoard) : i < j => batchOf[i] <= batchOf[j]
    /\ \A i \in 1..Len(messageBoard) :
          LET b == batchOf[i]
              k == i - MinOf(PositionsOf(b)) + 1
          IN  /\ b \in 1..Len(batches)
              /\ k <= Len(batches[b].posts)
              /\ messageBoard[i].author = batches[b].posts[k].author
              /\ messageBoard[i].title = batches[b].posts[k].title
              /\ messageBoard[i].message = batches[b].posts[k].message
              /\ messageBoard[i].clientId = myClientId[batches[b].by]

\* the board holds two complete batches of different sessions
C2_Witness ==
    /\ Len(messageBoard) = 4
    /\ batchOf[1] # batchOf[4]
    /\ batches[batchOf[1]].by # batches[batchOf[4]].by

\* session s holds the response to a GET_BOARD it has built
GetAnswered(s) ==
    /\ taken[s] # <<>>
    /\ parsed[s].ok
    /\ parsed[s].clientCmd = "GET_BOARD"
    /\ pc[s] = "send"

\* how many posts of a batch pass the filters of session s
MatchingIn(posts, s) ==
    Cardinality({ k \in 1..Len(posts) :
        PassesFilters(posts[k], parsed[s].filter_author, parsed[s].filter_title) })

C4_AppendOnly == [][IsPrefix(messageBoard, messageBoard')]_vars

\* the board holds posts of the test-posts button and of a session
C4_Witness ==
    /\ \E i \in 1..Len(messageBoard) : messageBoard[i].clientId = TestClientId
    /\ \E i \in 1..Len(messageBoard) : messageBoard[i].clientId # TestClientId

\* the pattern stands in the text at offset i
StandsAt(text, pat, i) ==
    /\ i + Len(pat) <= Len(text)
    /\ SubSeq(text, i + 1, i + Len(pat)) = pat

\* the messages, each followed by its terminator
RECURSIVE Reassembled(_, _)
Reassembled(msgs, i) ==
    IF i > Len(msgs) THEN <<>>
    ELSE msgs[i] \o transmissionTerminator \o Reassembled(msgs, i + 1)

\* C5: the messages returned on a connection, each with its terminator and
\* followed by what is left in the buffer, are the bytes received, in order,
\* none lost and none twice; every message ends at the first terminator after
\* its start; and the call waits for more bytes only while the buffer holds
\* no terminator
C5_FramesExact ==
    \A s \in Sessions :
        /\ Reassembled(taken[s], 1) \o RxBuffer[s] = stream[s]
        /\ \A k \in 1..Len(taken[s]) :
              \A i \in 0..(Len(taken[s][k]) - 1) :
                  ~StandsAt(taken[s][k] \o transmissionTerminator, transmissionTerminator, i)
        /\ pc[s] = "recv" =>
              \A i \in 0..Len(RxBuffer[s]) : ~StandsAt(RxBuffer[s], transmissionTerminator, i)
        /\ taken[s] # <<>> => CompletedMessage[s] = Last(taken[s])

\* two messages returned, the second out of the buffer, and a residual kept
C5_Witness ==
    /\ Len(taken[1]) = 2
    /\ taken[1][1] # <<>>
    /\ taken[1][2] # <<>>
    /\ RxBuffer[1] # <<>>

\* message k of session s has had its response written
Answered(s, k) == \E j \in 1..Len(sent[s]) : sent[s][j].req = k

\* the session is past the handling of its latest message
PastHandling(s) ==
    pc[s] \in {"read", "recv", "close", "unreg_lock", "unreg_body", "dec_load", "dec_store", "done"}

\* the latest message of session s waits for its response on a live connection
Pending(s) ==
    /\ taken[s] # <<>>
    /\ ~Answered(s, Len(taken[s]))
    /\ ~connLost[s]

\* no message is passed over: when the session reads again or closes, every
\* message it took has its response, unless the connection was lost
NoneSkipped ==
    \A s \in Sessions : \A k \in 1..Len(taken[s]) :
        (k < Len(taken[s]) \/ PastHandling(s)) => (Answered(s, k) \/ connLost[s])

\* C6: every terminator-framed message the session takes is answered on its
\* connection unless the connection is lost: the session never goes on without
\* having responded, and a message waiting for its response eventually gets it
C6_EveryMessageAnswered ==
    /\ []NoneSkipped
    /\ Pending(1) ~> ~Pending(1)

\* a rejected message and the one after it have both been answered
C6_Witness ==
    /\ Len(taken[1]) = 2
    /\ ~parsed[1].ok
    /\ Answered(1, 1) /\ Answered(1, 2)
    /\ ~connLost[1]
    /\ pc[1] = "read"

\* C7: within one session the response to message N is written in full before
\* message N+1 is taken from the buffer or the socket, so that responses leave
\* in the order of the messages
C7_ResponseBeforeNextRead ==
    \A s \in Sessions :
        /\ \A k \in 1..(Len(taken[s]) - 1) : Answered(s, k)
        /\ \A j \in 1..Len(sent[s]) : sent[s][j].req = j

\* the transmission of C8, as written in the claim
RepeatedPostLiteral ==
    <<"P","O","S","T","}","+","{","A","}","+","{","T","1","}","+","{","B","1","}","#","{",
      "P","O","S","T","}","+","{","B","}","+","{","T","2","}","+","{","B","2">>

PostOkLiteral ==
    <<"P","O","S","T","_","O","K","}","+","{","}","+","{","}","+","{","}","}","&","{","{">>

\* C8: the transmission that repeats the POST token behind the post separator
\* is answered with POST_OK and has put its two posts on the board
C8_RepeatedPostAccepted ==
    \A s \in Sessions : \A j \in 1..Len(sent[s]) :
        (sent[s][j].req # 0 /\ taken[s][sent[s][j].req] = RepeatedPostLiteral) =>
            /\ sent[s][j].bytes = PostOkLiteral
            /\ \E i \in 1..(Len(messageBoard) - 1) :
                  /\ messageBoard[i].author = <<"A">> /\ messageBoard[i].message = <<"B","1">>
                  /\ messageBoard[i + 1].author = <<"B">> /\ messageBoard[i + 1].message = <<"B","2">>

\* the payload of the generated message: the fields behind the command
GenPayload == SubSeq(genFields, 2, Len(genFields))

\* nonzero, a multiple of three, and every third field non-empty
WellShaped(payload) ==
    /\ Len(payload) # 0
    /\ Len(payload) % 3 = 0
    /\ \A j \in 1..(Len(payload) \div 3) : payload[3 * j] # <<>>

\* C9: a POST message parses if and only if its payload has a nonzero number
\* of fields that is a multiple of three and every body is non-empty; the
\* posts are then the triples in order, with empty authors and titles kept
C9_PostParseShape ==
    (genFields # <<>> /\ genFields[1] = StrPOST) =>
        LET payload == GenPayload
            r == parsed[1]
        IN  /\ r.ok <=> WellShaped(payload)
            /\ r.ok =>
                  /\ r.clientCmd = "POST"
                  /\ Len(r.posts) = Len(payload) \div 3
                  /\ \A j \in 1..Len(r.posts) :
                        /\ r.posts[j].author = payload[3 * j - 2]
                        /\ r.posts[j].title = payload[3 * j - 1]
                        /\ r.posts[j].message = payload[3 * j]
            /\ Len(payload) = 0 => r.error = ErrNoSets
            /\ (Len(payload) # 0 /\ Len(payload) % 3 # 0) => r.error = ErrTriples

\* two triples accepted, the first with empty author and title
C9_Witness ==
    /\ genFields # <<>> /\ genFields[1] = StrPOST
    /\ parsed[1].ok
    /\ Len(parsed[1].posts) = 2
    /\ parsed[1].posts[1].author = <<>>
    /\ parsed[1].posts[1].title = <<>>

\* POST transmissions with an empty body, in the first and in the second triple
EmptyBodyPosts == {MsgPostEmptyBody, MsgPostSecondEmpty}

\* the response of C10, as written in the claim
EmptyBodyResponseLiteral ==
    <<"I","N","V","A","L","I","D","_","C","O","M","M","A","N","D","}","+","{","}","+","{",
      "}","+","{","P","O","S","T"," ","m","e","s","s","a","g","e"," ","c","a","n","n","o","t",
      " ","b","e"," ","e","m","p","t","y",".","}","}","&","{","{">>

\* the latest message of session s is a POST with an empty body
HandlingEmptyBody(s) == taken[s] # <<>> /\ Last(taken[s]) \in EmptyBodyPosts

\* every response written to a POST with an empty body is the rejection
EmptyBodyAnswers ==
    \A s \in Sessions : \A j \in 1..Len(sent[s]) :
        (sent[s][j].req # 0 /\ taken[s][sent[s][j].req] \in EmptyBodyPosts) =>
            sent[s][j].bytes = EmptyBodyResponseLiteral

\* C10: a POST transmission with an empty body in any triple is rejected as a
\* whole: from the step that takes it on, the board and the counter of received
\* messages stay as they are; the response written is INVALID_COMMAND with the
\* reason "POST message cannot be empty."; and after the response the session
\* reads its next message
C10_EmptyBodyRejected ==
    [][\A s \in Sessions :
          /\ HandlingEmptyBody(s)' =>
                /\ messageBoard' = messageBoard
                /\ totalMessagesReceived' = totalMessagesReceived
          /\ (HandlingEmptyBody(s) /\ pc[s] = "send" /\ pc'[s] # "send") =>
                /\ pc'[s] = "read"
                /\ Answered(s, Len(taken[s]))' \/ connLost'[s]
          /\ EmptyBodyAnswers']_vars

\* a POST whose second body is empty has been rejected, nothing of it is on
\* the board, and the session has taken and stored the POST that followed
C10_Witness ==
    /\ Len(taken[1]) = 2
    /\ taken[1][1] = MsgPostSecondEmpty
    /\ Answered(1, 1)
    /\ taken[1][2] = MsgPostOne
    /\ Len(messageBoard) = 1
    /\ totalMessagesReceived = 1

\* every message session s has taken so far is a POST with an empty body
OnlyEmptyBodyPosts(s) == \A k \in 1..Len(taken[s]) : taken[s][k] \in EmptyBodyPosts

\* the responses written to POSTs with an empty body all start with the token
EmptyBodyAnswersStartWith(token) ==
    \A s \in Sessions : \A j \in 1..Len(sent[s]) :
        (sent[s][j].req # 0 /\ taken[s][sent[s][j].req] \in EmptyBodyPosts) =>
            IsPrefix(token \o fieldDelimiter, sent[s][j].bytes)

\* C11 (as the code has it): for every POST transmission with at least one
\* empty body the board is unchanged and the response the client receives is
\* an INVALID_COMMAND transmission
C11_EmptyBodyInvalidCommand ==
    /\ EmptyBodyAnswersStartWith(StrINVALID_COMMAND)
    /\ (\A s \in Sessions : OnlyEmptyBodyPosts(s)) =>
          messageBoard = <<>> /\ totalMessagesReceived = 0

\* both kinds of POST with an empty body have been answered on one connection
C11_Witness ==
    /\ Len(taken[1]) = 2
    /\ taken[1][1] = MsgPostEmptyBody
    /\ taken[1][2] = MsgPostSecondEmpty
    /\ Answered(1, 1) /\ Answered(1, 2)
    /\ messageBoard = <<>>

\* C11 as stated: for every POST transmission with at least one empty body the
\* board is unchanged and the response the client receives is a POST_ERROR
\* transmission
C11_EmptyBodyPostError ==
    /\ EmptyBodyAnswersStartWith(StrPOST_ERROR)
    /\ (\A s \in Sessions : OnlyEmptyBodyPosts(s)) =>
          messageBoard = <<>> /\ totalMessagesReceived = 0

\* messages that are one token which is none of GET_BOARD, POST and QUIT
UnknownTokenMsgs == {MsgFrobnicate, MsgInvalidToken, MsgLowerQuit}

\* the INVALID_COMMAND transmission that names the offending token
UnknownTokenResponse(token) ==
    StrINVALID_COMMAND \o fieldDelimiter \o fieldDelimiter \o fieldDelimiter
        \o <<"I","n","v","a","l","i","d"," ","c","o","m","m","a","n","d",":"," ">>
        \o token \o transmissionTerminator

\* the responses written to the messages of the set name the offending token
TokenAnswers(msgs) ==
    \A s \in Sessions : \A j \in 1..Len(sent[s]) :
        (sent[s][j].req # 0 /\ taken[s][sent[s][j].req] \in msgs) =>
            sent[s][j].bytes = UnknownTokenResponse(taken[s][sent[s][j].req])

\* C12: a non-empty message whose first field is none of GET_BOARD, POST and
\* QUIT (a lower-case spelling, a server response token) fails to parse with
\* an error that carries the token; the client receives INVALID_COMMAND with
\* the reason "Invalid command: " and the token; the board is unchanged and
\* the session stays open
C12_UnknownTokenNamed ==
    /\ TokenAnswers(UnknownTokenMsgs)
    /\ \A s \in Sessions :
          (taken[s] # <<>> /\ Last(taken[s]) \in UnknownTokenMsgs) =>
              /\ ~parsed[s].ok
              /\ parsed[s].error = ErrInvalidCommandPrefix \o Last(taken[s])
              /\ pc[s] \in {"log_lock", "log_body", "send", "read", "recv"} \/ connLost[s]
    /\ (\A s \in Sessions : \A k \in 1..Len(taken[s]) : taken[s][k] \in UnknownTokenMsgs) =>
          messageBoard = <<>>

\* the same for the tokens outside the command table of the server
UnlistedTokensNamed == TokenAnswers({MsgFrobnicate, MsgLowerQuit})

\* session 1 has the response of get_board_handler in hand
BoardAnswered == pc[1] = "send" /\ parsed[1].ok /\ parsed[1].clientCmd = "GET_BOARD"

\* equality on a non-empty filter, anything on an empty one
Matches(post, authorFilter, titleFilter) ==
    /\ authorFilter = <<>> \/ post.author = authorFilter
    /\ titleFilter = <<>> \/ post.title = titleFilter

\* the posts of the board that the filters of session 1 select, in board order
Selected ==
    SelectSeq(messageBoard,
              LAMBDA post : Matches(post, parsed[1].filter_author, parsed[1].filter_title))

\* author, title and body of one record F author F title F body
DecodeRecord(rec) ==
    LET f2 == Find(rec, fieldDelimiter, Len(fieldDelimiter))
        f3 == Find(rec, fieldDelimiter, f2 + Len(fieldDelimiter))
    IN  <<Substr(rec, Len(fieldDelimiter), f2 - Len(fieldDelimiter)),
          Substr(rec, f2 + Len(fieldDelimiter), f3 - f2 - Len(fieldDelimiter)),
          EraseFront(rec, f3 + Len(fieldDelimiter))>>

\* the records between the token and the terminator, split at the separator
RECURSIVE DecodeRecords(_)
DecodeRecords(body) ==
    IF body = <<>> THEN <<>>
    ELSE LET r == Find(body, messageSeperator, 0)
         IN  IF r = NPOS THEN <<DecodeRecord(body)>>
             ELSE <<DecodeRecord(Substr(body, 0, r))>>
                      \o DecodeRecords(EraseFront(body, r + Len(messageSeperator)))

\* what a client reads out of a GET_BOARD response
Decode(resp) ==
    DecodeRecords(SubSeq(resp, Len(StrGET_BOARD) + 1, Len(resp) - Len(transmissionTerminator)))

\* C13: the posts a GET_BOARD response carries are exactly the posts of the
\* board whose author equals a non-empty author filter and whose title equals
\* a non-empty title filter, in insertion order; equality is byte-exact and
\* two empty filters return the whole board
C13_FilterExact ==
    BoardAnswered =>
        /\ Decode(response[1]) =
              [k \in 1..Len(Selected) |->
                  <<Selected[k].author, Selected[k].title, Selected[k].message>>]
        /\ (parsed[1].filter_author = <<>> /\ parsed[1].filter_title = <<>>) =>
              Len(Decode(response[1])) = Len(messageBoard)

\* the author filter A leaves out the authors a and AB that stand on the board
C13_Witness ==
    /\ BoardAnswered
    /\ parsed[1].filter_author = <<"A">>
    /\ Len(messageBoard) = 2
    /\ messageBoard[1].author = <<"A","B">>
    /\ messageBoard[2].author = <<"A">>
    /\ Len(Decode(response[1])) = 1

\* F author F title F body of every post, the separator between two of them
RECURSIVE Records(_, _)
Records(posts, k) ==
    IF k > Len(posts) THEN <<>>
    ELSE (IF k = 1 THEN <<>> ELSE messageSeperator)
             \o fieldDelimiter \o posts[k].author \o fieldDelimiter \o posts[k].title
             \o fieldDelimiter \o posts[k].message \o Records(posts, k + 1)

GoodbyeLiteral ==
    <<"Q","U","I","T","}","+","{","S","E","R","V","E","R","}","+","{","B","Y","E","!","!","!",
      "}","+","{","S","e","r","v","e","r"," ","s","a","y","s",":"," ","B","Y","E","!","!","!",
      "}","}","&","{","{">>

\* session s has parsed a QUIT and has terminated
QuitAndDone(s) == pc[s] = "done" /\ parsed[s].ok /\ parsed[s].clientCmd = "QUIT"

\* the goodbye is the last response written to s, unless the write failed
GoodbyeSent(s) ==
    connLost[s] \/ (sent[s] # <<>> /\ Last(sent[s]).bytes = GoodbyeLiteral
                                   /\ Last(sent[s]).req = Len(taken[s]))

\* the event log holds a record of the kind for the thread, after position i
LoggedAfter(kind, t, i) ==
    \E j \in (i + 1)..Len(eventLog) :
        eventLog[j].event_type = kind /\ eventLog[j].thread = t

\* C15: a session that parses QUIT sends the goodbye, closes and terminates,
\* and the event log has for it a QUIT record followed by a DISCONNECT record
C15_QuitThenDisconnect ==
    \A s \in Sessions : QuitAndDone(s) =>
        /\ GoodbyeSent(s)
        /\ \E i \in 1..Len(eventLog) :
              /\ eventLog[i].event_type = "QUIT" /\ eventLog[i].thread = s
              /\ LoggedAfter("DISCONNECT", s, i)

\* the part of C15 that the session does: goodbye, QUIT record, removal from
\* the registry, termination
QuitAnsweredAndLogged ==
    \A s \in Sessions : QuitAndDone(s) =>
        /\ GoodbyeSent(s)
        /\ LoggedAfter("QUIT", s, 0)
        /\ \A i \in 1..Len(activeClientSockets) :
              activeClientSockets[i] # CommunicationSocket[s]

\* a session has parsed QUIT and terminated with its goodbye written
QuitDoneReached == QuitAndDone(1) /\ ~connLost[1]

\* the transmissions that arrive together with a following QUIT
PrecedingMsgs == {MsgPostOne, MsgFrobnicate}

\* one recv call has brought session s a transmission of m and a QUIT
CoArrived(s, m) ==
    /\ recvCalls[s] = 1
    /\ stream[s] = m \o transmissionTerminator \o StrQUIT \o transmissionTerminator

\* the response to a transmission that precedes the QUIT
PrecedingAnswer(m) ==
    IF m = MsgPostOne THEN PostOkLiteral ELSE UnknownTokenResponse(m)

\* the session is in its cleanup or has terminated
Leaving(s) ==
    pc[s] \in {"close", "unreg_lock", "unreg_body", "dec_load", "dec_store", "done"}

\* C16: when a QUIT arrives in the same read chunk as a preceding
\* transmission, valid or not, the session takes the preceding transmission
\* as a message of its own and answers it, then takes the QUIT and honours it:
\* the QUIT is not merged into the preceding message and is not lost
C16_CoalescedQuit ==
    \A s \in Sessions : \A m \in PrecedingMsgs : CoArrived(s, m) =>
        /\ taken[s] # <<>> /\ IsPrefix(taken[s], <<m, StrQUIT>>)
        /\ Answered(s, 1) => sent[s][1].bytes = PrecedingAnswer(m)
        /\ Len(taken[s]) = 2 =>
              /\ Answered(s, 1) \/ connLost[s]
              /\ parsed[s].ok /\ parsed[s].clientCmd = "QUIT"
        /\ Answered(s, 2) => Last(sent[s]).bytes = GoodbyeLiteral
        /\ Leaving(s) => Len(taken[s]) = 2 /\ (Answered(s, 2) \/ connLost[s])

\* a rejected transmission and the QUIT of its chunk have both been answered
\* and the session has terminated
C16_Witness ==
    /\ CoArrived(1, MsgFrobnicate)
    /\ pc[1] = "done"
    /\ Len(sent[1]) = 2
    /\ sent[1][2].bytes = GoodbyeLiteral

\* the last n elements of a sequence
LastN(seq, n) == SubSeq(seq, Len(seq) - n + 1, Len(seq))

\* C17: the event log never holds more than 100 records, and after n logEvent
\* calls from any threads it holds the last min(n, 100) records in the order
\* in which the calls took eventLogMutex: the oldest record is evicted
C17_LogKeepsLast100 ==
    /\ Len(eventLog) <= 100
    /\ eventLog = LastN(logHistory, IF Len(logHistory) < 100 THEN Len(logHistory) ELSE 100)

\* calls of two threads have pushed the log past its capacity
C17_Witness ==
    /\ Len(logHistory) > 102
    /\ Len(eventLog) = 100
    /\ eventLog[99].thread # eventLog[100].thread
    /\ eventLog[1] # PriorEvents[1]

\* the sessions that have been given a client id
Registered == { s \in Sessions : myClientId[s] # 0 }

\* C18: the client ids given to sessions are pairwise distinct for the whole
\* life of the process, however session starts interleave: every id is the
\* value of nextClientId at its registration and is larger than every id
\* given before, also when the earlier session has terminated
C18_ClientIdsDistinct ==
    /\ [](\A s, t \in Registered : s # t => myClientId[s] # myClientId[t])
    /\ [](\A s \in Registered : myClientId[s] < nextClientId)
    /\ [][\A s \in Sessions : myClientId'[s] # myClientId[s] =>
              /\ myClientId'[s] = nextClientId
              /\ nextClientId' > nextClientId
              /\ \A t \in Registered : myClientId[t] < myClientId'[s]]_vars

\* a session has terminated and a later one, on the descriptor the first one
\* had, has a larger id
C18_Witness ==
    \E s, t \in Sessions :
        /\ pc[s] = "done"
        /\ t \in Registered
        /\ pc[t] # "done"
        /\ CommunicationSocket[t] = CommunicationSocket[s]
        /\ myClientId[t] > myClientId[s]

\* session s is inside its registration or its cleanup
Transitional(s) ==
    pc[s] \in {"reg_lock", "reg_body", "inc_load", "inc_store",
               "close", "unreg_lock", "unreg_body", "dec_load", "dec_store"}

\* C19: whenever no session is inside its registration or its cleanup, the
\* counter of active connections equals the number of registered sockets;
\* concurrent starts and ends lose no increment and no decrement, and once
\* every session has terminated the counter is 0
C19_CounterMatchesRegistry ==
    (\A s \in Sessions : ~Transitional(s)) =>
        /\ activeConnections = Len(activeClientSockets)
        /\ (\A s \in Sessions : pc[s] = "done") => activeConnections = 0

\* the read of session s returns closed or fails in this step
ReadEnds(s) == pc[s] = "recv" /\ ~connLost[s] /\ connLost'[s]

\* no session that is still running has the descriptor of session s
DescriptorFree(s) ==
    \A t \in Sessions \ {s} :
        (pc[t] \notin {"idle", "done"}) => CommunicationSocket[t] # CommunicationSocket[s]

\* C20: a read that returns closed or fails ends the session of that
\* connection and nothing else: the session logs DISCONNECT, closes, leaves
\* the registry and terminates; the board, the other sessions and the accept
\* loop are as they were and go on
C20_ReadEndOnlyThatSession ==
    /\ [][\A s \in Sessions : ReadEnds(s) =>
              /\ logKind'[s] = "DISCONNECT" /\ logRet'[s] = "close"
              /\ messageBoard' = messageBoard
              /\ serverRunning' = serverRunning
              /\ activeClientSockets' = activeClientSockets
              /\ \A t \in Threads \ {s} : pc'[t] = pc[t]
              /\ \A t \in Sessions \ {s} :
                    connLost'[t] = connLost[t] /\ RxBuffer'[t] = RxBuffer[t]]_vars
    /\ [](\A s \in Sessions : (connLost[s] /\ pc[s] = "done") =>
              /\ LoggedAfter("DISCONNECT", s, 0)
              /\ DescriptorFree(s) =>
                    \A i \in 1..Len(activeClientSockets) :
                        activeClientSockets[i] # CommunicationSocket[s])

\* a session has ended on a closed read; the accept loop has since accepted a
\* connection on the same descriptor, whose session has been answered
C20_Witness ==
    \E s, t \in Sessions :
        /\ connLost[s] /\ pc[s] = "done"
        /\ CommunicationSocket[t] = CommunicationSocket[s]
        /\ myClientId[t] > myClientId[s]
        /\ ~connLost[t] /\ Answered(t, 1)
        /\ serverRunning

\* post_handler has returned false to session s, which is logging the error
PostFailed(s) == pc[s] \in {"log_lock", "log_body"} /\ logKind[s] = "POST_ERROR"

NoPostsLiteral ==
    <<"P","O","S","T","_","E","R","R","O","R","}","+","{","}","+","{","}","+","{","N","o"," ","p","o","s","t","s"," ","t","o"," ","a","d","d","}","}","&","{","{">>

\* the call made with an empty batch fails with 'No posts to add' and leaves
\* the board and the counter as they were
EmptyBatchRejected ==
    [][\A s \in Sessions :
          (pc[s] = "idle" /\ pc'[s] # "idle" /\ parsed'[s].posts = <<>>) =>
             /\ PostFailed(s)'
             /\ response'[s] = NoPostsLiteral
             /\ messageBoard' = messageBoard
             /\ totalMessagesReceived' = totalMessagesReceived]_vars

EmptyBatchRefused ==
    /\ PostFailed(1) /\ parsed[1].posts = <<>>
    /\ Len(messageBoard) = 2 /\ totalMessagesReceived = 2

\* parse_message accepts the transmission, and the wire form rebuilt from the
\* result is the transmission
RoundTrips(m) ==
    LET p == parse_message(m)
    IN  /\ p.ok
        /\ p.clientCmd \in {"GET_BOARD", "POST"}
        /\ raw_msg(p) = m

\* C22: every response the server has written is decoded by the system's
\* decoder and encoded again to the same bytes
C22_ResponseRoundTrip ==
    \A s \in Sessions : \A j \in 1..Len(sent[s]) : RoundTrips(sent[s][j].bytes)

\* the field of the generated message at position k, empty when there is none
FieldOr(k) == IF Len(genFields) > k THEN genFields[k + 1] ELSE <<>>

\* C23: a message whose first field is GET_BOARD always parses: positions 1
\* and 2 are the author and title filters, empty when missing, and further
\* fields are ignored; a message whose first field is QUIT always parses,
\* whatever fields follow
C23_GetBoardAndQuitParse ==
    /\ (genFields # <<>> /\ genFields[1] = StrGET_BOARD) =>
          /\ parsed[1].ok /\ parsed[1].clientCmd = "GET_BOARD" /\ parsed[1].error = <<>>
          /\ parsed[1].filter_author = FieldOr(1)
          /\ parsed[1].filter_title = FieldOr(2)
          /\ parsed[1].posts = <<>>
    /\ (genFields # <<>> /\ genFields[1] = StrQUIT) =>
          /\ parsed[1].ok /\ parsed[1].clientCmd = "QUIT" /\ parsed[1].error = <<>>
          /\ parsed[1].filter_author = <<>> /\ parsed[1].filter_title = <<>>
          /\ parsed[1].posts = <<>>

\* a GET_BOARD with an empty author filter, a title filter and a further
\* field has been parsed
C23_Witness ==
    /\ Len(genFields) = 4
    /\ genFields[1] = StrGET_BOARD
    /\ genFields[2] = <<>> /\ genFields[3] = <<"}">> /\ genFields[4] = <<"}">>
    /\ parsed[1].ok /\ parsed[1].filter_title = <<"}">>

\* the terminator stands at the end of the bytes and nowhere before
TerminatedOnce(bytes) ==
    /\ Len(bytes) >= Len(transmissionTerminator)
    /\ Find(bytes, transmissionTerminator, 0) = Len(bytes) - Len(transmissionTerminator)

PostErrorHead ==
    <<"P","O","S","T","_","E","R","R","O","R","}","+","{","}","+","{","}","+","{">>

\* POST_ERROR, three separators with empty author and title, then the reason
PostErrorShape(bytes) ==
    /\ IsPrefix(PostErrorHead, bytes)
    /\ Find(bytes, fieldDelimiter, Len(PostErrorHead)) = NPOS

\* C24: every transmission the server writes ends with the terminator and
\* holds it nowhere else; a POST_OK is exactly POST_OK}+{}+{}+{}}&{{ and a
\* POST_ERROR is POST_ERROR}+{}+{}+{, the reason and the terminator
C24_OneTerminatorAtEnd ==
    \A s \in Sessions : \A j \in 1..Len(sent[s]) :
        LET bytes == sent[s][j].bytes
        IN  /\ TerminatedOnce(bytes)
            /\ IsPrefix(StrPOST_OK, bytes) => bytes = PostOkLiteral
            /\ IsPrefix(StrPOST_ERROR, bytes) => PostErrorShape(bytes)

\* the connection has carried a board response with a post whose fields are
\* made of separator bytes, and the shutdown notice after it
C24_Witness ==
    \E j, k \in 1..Len(sent[1]) :
        /\ j < k
        /\ IsPrefix(StrGET_BOARD \o fieldDelimiter \o <<"}">> \o fieldDelimiter \o BraceField,
                    sent[1][j].bytes)
        /\ sent[1][k].bytes = ShutdownMessage

\* a POST_ERROR has been written
PostErrorWritten ==
    \E j \in 1..Len(sent[1]) : IsPrefix(StrPOST_ERROR, sent[1][j].bytes)

\* the fields of a text split at every occurrence of the separator, from the
\* left, empty fields kept
RECURSIVE FieldsOf(_, _)
FieldsOf(text, delim) ==
    LET p == Find(text, delim, 0)
    IN  IF p = NPOS THEN <<text>>
        ELSE <<SubSeq(text, 1, p)>> \o FieldsOf(EraseFront(text, p + Len(delim)), delim)

\* the call was made with a result
Called == splitCall # NoCall

\* text[0, endPos) of the call
CalledPrefix == SubSeq(splitCall.text, 1, splitCall.endPos)

\* C25: split_fields_until returns the fields of the prefix text[0, endPos),
\* in order and with empty fields kept, for every endPos from 0 to the size
\* of the text, also one on or inside a separator
C25_SplitsPrefix ==
    Called => splitCall.out = FieldsOf(CalledPrefix, fieldDelimiter)

\* endPos lies strictly inside an occurrence of the separator
InsideDelimiter ==
    \E p \in 0..(Len(splitCall.text) - Len(fieldDelimiter)) :
        /\ SubSeq(splitCall.text, p + 1, p + Len(fieldDelimiter)) = fieldDelimiter
        /\ p < splitCall.endPos /\ splitCall.endPos < p + Len(fieldDelimiter)

\* the same, for every endPos that is not inside a separator
SplitsPrefixAtBoundaries ==
    (Called /\ ~InsideDelimiter) => splitCall.out = FieldsOf(CalledPrefix, fieldDelimiter)

\* the mutexes thread t owns
HeldBy(t) ==
    { m \in {"boardMutex", "eventLogMutex", "clientsMutex"} :
         \/ (m = "boardMutex" /\ boardMutex = t)
         \/ (m = "eventLogMutex" /\ eventLogMutex = t)
         \/ (m = "clientsMutex" /\ clientsMutex = t) }

\* C26: no thread holds two of boardMutex, eventLogMutex and clientsMutex at
\* the same time
C26_OneMutexAtATime == \A t \in Threads : Cardinality(HeldBy(t)) <= 1

\* the same for the sessions and the supervisor
ServerThreadsOneMutex ==
    \A t \in Threads \ {ObserverThread} : Cardinality(HeldBy(t)) <= 1

\* the owner of the mutex thread t is waiting for, NoThread when t is not
\* waiting or the mutex is free
Blocker(t) ==
    IF pc[t] = "log_lock" THEN eventLogMutex
    ELSE IF pc[t] \in {"post_lock", "get_lock"} THEN boardMutex
    ELSE IF pc[t] \in {"reg_lock", "unreg_lock", "sd_lock"} THEN clientsMutex
    ELSE NoThread

\* thread t stands at a lock request
Requesting(t) ==
    pc[t] \in {"log_lock", "post_lock", "get_lock", "reg_lock", "unreg_lock", "sd_lock"}

\* following the blockers from t for n steps leads to u
RECURSIVE BlockedBy(_, _, _)
BlockedBy(t, u, n) ==
    /\ n > 0
    /\ Blocker(t) # NoThread
    /\ (Blocker(t) = u \/ BlockedBy(Blocker(t), u, n - 1))

\* C27: no thread that waits for boardMutex, eventLogMutex or clientsMutex is
\* part of a cycle of threads waiting for each other, and under fair
\* scheduling every lock request is granted
C27_NoDeadlock ==
    /\ [](\A t \in Threads : ~BlockedBy(t, t, Cardinality(Threads)))
    /\ \A t \in Threads : Requesting(t) ~> ~Requesting(t)

\* the monitor holds boardMutex and waits for eventLogMutex, which the
\* session holds
C27_Witness ==
    /\ boardMutex = ObserverThread /\ pc[ObserverThread] = "log_lock"
    /\ eventLogMutex = 1 /\ pc[1] = "log_body"

\* C28: once a response could not be written, the session takes no further
\* message from that connection and handles none: it goes on to close,
\* unregister and terminate
C28_SendFailureCloses ==
    [][\A s \in Sessions :
          connLost[s] =>
             /\ taken'[s] = taken[s]
             /\ pc'[s] \notin {"post_lock", "post_loop", "get_lock", "get_body", "send"}]_vars

\* a session whose write failed does terminate once its next read fails
LostSessionEnds ==
    \A s \in Sessions : (connLost[s] /\ pc[s] = "done") =>
        \A i \in 1..Len(activeClientSockets) : activeClientSockets[i] # CommunicationSocket[s]

\* the records the supervisor has written to the event log
SupervisorRecords ==
    Cardinality({ j \in 1..Len(logHistory) :
                     logHistory[j].thread = SupervisorThread /\ logHistory[j].event_type = "SERVER" })

\* the order of the shutdown sequence: the first record before the snapshot
\* and the broadcast, three attempts before the listener is closed, the last
\* record after it
ShutdownInOrder ==
    /\ pc[SupervisorThread] \in {"sd_lock", "sd_send", "sd_close"} => SupervisorRecords = 1
    /\ pc[SupervisorThread] = "sd_send" => clientsMutex = SupervisorThread
    /\ pc[SupervisorThread] = "sd_close" => attempt = BroadcastAttempts
    /\ pc[SupervisorThread] = "sd_done" =>
          SupervisorRecords = 2 /\ attempt = BroadcastAttempts

\* C29: once serverRunning is cleared the supervisor leaves the accept loop
\* without a further connection and runs its shutdown sequence to the end,
\* in order: record, snapshot, three broadcasts, close, record
C29_ShutdownRuns ==
    /\ []ShutdownInOrder
    /\ (~serverRunning) ~> (pc[SupervisorThread] = "sd_done")

\* the supervisor has run its shutdown sequence to the end
ShutdownDone == pc[SupervisorThread] = "sd_done" /\ ~serverRunning

\* C30: after the supervisor's shutdown sequence every session that was
\* active closes its connection and terminates without its peer closing or
\* sending QUIT, so that the registry becomes empty
C30_SessionsEndAfterShutdown ==
    (pc[SupervisorThread] = "sd_done") ~>
        (/\ activeClientSockets = <<>>
         /\ \A s \in Sessions : pc[s] \in {"idle", "done"})

\* the shutdown has run and a session that received the notice still waits
\* for bytes from its peer
WaitingAfterShutdown ==
    /\ pc[SupervisorThread] = "sd_done"
    /\ pc[1] = "recv" /\ ~connLost[1]
    /\ \E j \in 1..Len(sent[1]) : sent[1][j].bytes = ShutdownMessage
    /\ activeClientSockets # <<>>

\* the positions at which a thread writes to a socket, reads from one, closes
\* one or sleeps
IoLabels == {"recv", "send", "close", "sd_send", "sd_close"}

\* C31: clientsMutex and eventLogMutex are never held by a thread that is
\* doing socket I/O or sleeping, so a session that registers or unregisters
\* never waits behind a send or a sleep of another thread
C31_NoIoUnderLock ==
    \A t \in Threads :
        pc[t] \in IoLabels => (clientsMutex # t /\ eventLogMutex # t)

\* the same for eventLogMutex alone, and for clientsMutex in the sessions
LogLockAndSessionsShort ==
    /\ \A t \in Threads : pc[t] \in IoLabels => eventLogMutex # t
    /\ \A s \in Sessions : pc[s] \in IoLabels => clientsMutex # s

\* a session waits to unregister while the supervisor holds clientsMutex
\* between two attempts of its broadcast
BlockedBehindBroadcast ==
    /\ pc[SupervisorThread] = "sd_send" /\ attempt > 0
    /\ clientsMutex = SupervisorThread
    /\ pc[1] = "unreg_lock"

\* session s has pushed its socket and not yet erased it
InRegistry(s) ==
    pc[s] \notin {"idle", "reg_lock", "reg_body", "dec_load", "dec_store", "done"}

\* the registry holds one entry per registered session, with its descriptor
RegistryMatchesSessions ==
    \A f \in 1..NumSessions :
        Cardinality({ i \in 1..Len(activeClientSockets) : activeClientSockets[i] = f })
            = Cardinality({ s \in Sessions : InRegistry(s) /\ CommunicationSocket[s] = f })

\* session s is in its message loop or has been
HasRead(s) == pc[s] \in {"read", "recv"} \/ recvCalls[s] > 0 \/ taken[s] # <<>>

\* C32: a session is in the registry, counted and has logged CONNECT before
\* it reads its first message; when it has ended, by QUIT, a closed read or
\* an I/O error, its entry and no other has left the registry and the count
\* of active connections has gone down by one
C32_SessionLifecycle ==
    /\ RegistryMatchesSessions
    /\ \A s \in Sessions :
          /\ HasRead(s) => \E j \in 1..Len(logHistory) :
                               logHistory[j].event_type = "CONNECT" /\ logHistory[j].thread = s
          /\ pc[s] \in {"read", "recv", "send"} => activeConnections = 1
          /\ pc[s] = "done" => (activeConnections = 0 /\ activeClientSockets = <<>>)

\* a session has served a message, parsed QUIT and terminated
C32_Witness ==
    /\ pc[1] = "done" /\ Len(taken[1]) = 2
    /\ parsed[1].ok /\ parsed[1].clientCmd = "QUIT"

\* ------------------------------------------------------------------------
\* send_all_bytes when send() takes only part of what is left, next to the
\* shutdown broadcast of the supervisor
\* ------------------------------------------------------------------------
\* the bytes a short send() takes
PartialWrite == 8

\* send() returns PartialWrite, less than what is left: totalSent advances
\* and the loop calls send() again
SendPart(s) ==
    /\ pc[s] = "send"
    /\ ~connLost[s]
    /\ Len(response[s]) - totalSent[s] > PartialWrite
    /\ wire' = [wire EXCEPT ![s] = Append(@, Written(s, Len(taken[s]),
                    SubSeq(response[s], totalSent[s] + 1, totalSent[s] + PartialWrite)))]
    /\ totalSent' = [totalSent EXCEPT ![s] = @ + PartialWrite]
    /\ UNCHANGED <<eventLog, logHistory, G_mutex, G_board, G_batch, G_reg, G_msg, G_sup, G_gen>>
    /\ UNCHANGED <<G_ctl, response, connLost, sent, snap>>

NextSend ==
    \/ SupCheck
    \/ Accept(1)
    \/ SessionStep(1)
    \/ SendPart(1)
    \/ Recv(1, GuiChunks, MaxMsgs - 1)
    \/ RecvClosed(1)
    \/ \E t \in Threads : LogLock(t) \/ LogBody(t)
    \/ ClickShutdown
    \/ SdLock \/ SdSend \/ SdClose

SpecSend == Init /\ [][NextSend]_vars

\* the bytes a connection carried, in the order they were written
RECURSIVE WireBytes(_, _)
WireBytes(w, i) == IF i > Len(w) THEN <<>> ELSE w[i].bytes \o WireBytes(w, i + 1)

\* C33: between two writes of one response on a connection there is no write
\* of another thread or of another response: the bytes of a response are
\* contiguous on the wire, also when send() takes them in several pieces and
\* the supervisor broadcasts the shutdown notice
C33_ResponseContiguous ==
    \A s \in Sessions :
        \A i, k \in 1..Len(wire[s]) :
            (i < k /\ wire[s][i].by = s /\ wire[s][k].by = s /\ wire[s][i].req = wire[s][k].req)
                => \A j \in i..k : wire[s][j].by = s /\ wire[s][j].req = wire[s][i].req

\* without the broadcast the pieces of the responses add up to the responses
SessionWritesWhole ==
    \A s \in Sessions :
        (totalSent[s] = 0 /\ \A i \in 1..Len(wire[s]) : wire[s][i].by = s)
            => WireBytes(wire[s], 1) = WireBytes(sent[s], 1)

\* C34: every post in the board has a non-empty body, belongs to a batch that
\* parse_message returned for a POST, and carries the client id of the
\* session that received that message
C34_PostsComeFromParsedPosts ==
    \A i \in 1..Len(messageBoard) :
        /\ messageBoard[i].message # <<>>
        /\ batchOf[i] \in 1..Len(batches)
        /\ messageBoard[i].clientId = myClientId[batches[batchOf[i]].by]

\* what does hold with the monitor's test posts: no post has an empty body,
\* and a post is either of a session's batch or carries the test id
PostsHaveBodies ==
    \A i \in 1..Len(messageBoard) :
        /\ messageBoard[i].message # <<>>
        /\ \/ /\ batchOf[i] \in 1..Len(batches)
              /\ messageBoard[i].clientId = myClientId[batches[batchOf[i]].by]
           \/ /\ batchOf[i] = 0
              /\ messageBoard[i].clientId = TestClientId

\* the ERROR records thread t ever wrote to the event log
ErrorRecords(h, t) ==
    Cardinality({ j \in 1..Len(h) : h[j].event_type = "ERROR" /\ h[j].thread = t })

\* handle_client_request is in its branch for a message that did not parse
HandlingParseFailure(s) ==
    /\ ~parsed[s].ok
    /\ \/ pc[s] \in {"log_lock", "log_body"} /\ logKind[s] = "ERROR"
       \/ pc[s] = "send"

BoardUnchanged ==
    /\ messageBoard' = messageBoard
    /\ totalMessagesReceived' = totalMessagesReceived

\* C35: the board and its counter change only in post_handler's loop for a
\* successfully parsed POST, so a parse failure, a GET_BOARD or a QUIT leaves
\* them as they are; the handling of a parse failure writes exactly one ERROR
\* record, does not touch the receive buffer and ends with the session
\* reading again
C35_OnlyPostChangesBoard ==
    [][ /\ ~BoardUnchanged =>
              \E s \in Sessions :
                  /\ pc[s] = "post_loop" /\ parsed[s].ok /\ parsed[s].clientCmd = "POST"
                  /\ loopIdx'[s] = loopIdx[s] + 1
        /\ \A s \in Sessions :
              HandlingParseFailure(s) =>
                  /\ BoardUnchanged
                  /\ RxBuffer'[s] = RxBuffer[s]
                  /\ HandlingParseFailure(s)' \/ pc'[s] = "read"
                  /\ ErrorRecords(logHistory', s) = ErrorRecords(logHistory, s)
                        + (IF pc[s] = "log_body" /\ pc'[s] = "send" THEN 1 ELSE 0)
      ]_vars

\* an unknown command with QUIT behind it in the buffer was answered after a
\* POST: one ERROR record, the board as the POST left it, QUIT still buffered
C35_Witness ==
    /\ pc[1] = "read" /\ ~parsed[1].ok
    /\ Len(taken[1]) = 2
    /\ messageBoard # <<>>
    /\ RxBuffer[1] = Transmission(MsgQuit)
    /\ ErrorRecords(logHistory, 1) = 1

\* ------------------------------------------------------------------------
\* parse_message applied to a message with its terminator and what follows
\* ------------------------------------------------------------------------
\* the command token, also the empty one of a terminator sent alone
TermCommands == ParseCommands \cup { <<>> }
\* what the buffer holds behind the terminator
TermRests == { <<>>, StrQUIT, transmissionTerminator, <<"{", "{">> }

\* parse_message(m + T + rest); taken keeps m, which is what
\* read_message_until_terminator hands to parse_message in a session
TermGen ==
    /\ CompletedMessage[1] = <<>>
    /\ \E cmd \in TermCommands, n \in 0..MaxFields, rest \in TermRests :
         \E fields \in [1..n -> ParseFieldValues], seps \in [1..n -> ParseSeparators] :
            LET m == cmd \o JoinFields(fields, seps, 1)
                msg == m \o transmissionTerminator \o rest
            IN  /\ (cmd # StrPOST => n <= MaxOtherFields)
                /\ taken' = [taken EXCEPT ![1] = <<m>>]
                /\ CompletedMessage' = [CompletedMessage EXCEPT ![1] = msg]
                /\ parsed' = [parsed EXCEPT ![1] = parse_message(msg)]
    /\ UNCHANGED <<eventLog, logHistory, G_mutex, G_board, G_batch, G_reg, G_out, G_sup, G_ctl>>
    /\ UNCHANGED <<RxBuffer, stream, recvCalls, parsedPostTotal, G_gen, G_wire>>

NextTerm == TermGen

SpecTerm == Init /\ [][NextTerm]_vars

\* C36: parse_message returns for m + T + rest what it returns for m alone,
\* for every m without a terminator, the empty m included
C36_TerminatorIgnored ==
    CompletedMessage[1] # <<>> => parsed[1] = parse_message(taken[1][1])

\* what does hold: the outcomes are equal whenever m is not empty
TerminatorIgnoredWhenNotEmpty ==
    (CompletedMessage[1] # <<>> /\ taken[1][1] # <<>>) => parsed[1] = parse_message(taken[1][1])

\* the terminator alone: parse_message does not report an empty message
TerminatorAloneNotEmptyError ==
    (CompletedMessage[1] # <<>> /\ taken[1][1] = <<>>)
        => /\ parse_message(taken[1][1]).error = ErrEmptyMessage
           /\ parsed[1].error # ErrEmptyMessage
           /\ ~parsed[1].ok

\* the command token of a message is POST
IsPostMsg(m) == m = StrPOST \/ IsPrefix(StrPOST \o fieldDelimiter, m) \/ IsPrefix(StrPOST \o messageSeperator, m)

\* the fields behind the command token, counted separator by separator
PayloadCount(m) ==
    Len(FieldsOf(ReplaceLoop(m, messageSeperator, fieldDelimiter, 0), fieldDelimiter)) - 1

HasSeparator(field) ==
    \/ Find(field, fieldDelimiter, 0) # NPOS
    \/ Find(field, messageSeperator, 0) # NPOS
    \/ Find(field, transmissionTerminator, 0) # NPOS

\* C38: no author, title or body that a session stored contains the field
\* separator, the record separator or the terminator, and the records split
\* out of a GET_BOARD response are the stored fields of the selected posts
C38_StoredFieldsSeparatorFree ==
    /\ \A i \in 1..Len(messageBoard) :
          batchOf[i] # 0 =>
              /\ ~HasSeparator(messageBoard[i].author)
              /\ ~HasSeparator(messageBoard[i].title)
              /\ ~HasSeparator(messageBoard[i].message)
    /\ BoardAnswered =>
          Decode(response[1]) =
              [k \in 1..Len(Selected) |->
                  <<Selected[k].author, Selected[k].title, Selected[k].message>>]

\* a board whose fields are made of the separators' bytes was sent and split
C38_Witness ==
    /\ BoardAnswered
    /\ Len(messageBoard) = 2
    /\ messageBoard[1].message = BraceField
    /\ messageBoard[2].author = <<"&">>
    /\ Decode(response[1])[1][3] = BraceField
    /\ Decode(response[1])[2] = << <<"&">>, <<"{">>, <<"}">> >>

\* the session is registered and has not yet called close() on its socket
OpenAndRegistered(s) == InRegistry(s) /\ pc[s] \notin ClosedLabels

\* C39: activeClientSockets holds, for every descriptor, exactly one entry per
\* registered session whose connection with that descriptor is still open:
\* no entry is the handle of a connection that was already closed
C39_RegistryHoldsOpenHandles ==
    \A f \in 1..NumSessions :
        Cardinality({ i \in 1..Len(activeClientSockets) : activeClientSockets[i] = f })
            = Cardinality({ s \in Sessions : OpenAndRegistered(s) /\ CommunicationSocket[s] = f })

\* the descriptor of a closed connection is in the registry next to the same
\* number, given by accept() to a new connection
StaleHandleReused ==
    /\ pc[1] \in {"unreg_lock", "unreg_body"}
    /\ pc[2] \notin ClosedLabels /\ InRegistry(2)
    /\ CommunicationSocket[1] = CommunicationSocket[2]
    /\ Len(activeClientSockets) = 2
    /\ activeClientSockets[1] = activeClientSockets[2]

\* the broadcast is about to write to a descriptor whose connection is closed
BroadcastToClosedHandle ==
    /\ pc[SupervisorThread] = "sd_send"
    /\ \E k \in 1..Len(clientsToDisconnect) :
          \A s \in Sessions :
              CommunicationSocket[s] = clientsToDisconnect[k] => pc[s] \in ClosedLabels

\* C40: once serverRunning is false no connection is turned into a session:
\* no client_handler thread is started, so nothing is registered and no
\* client id is given out for a connection that arrives afterwards
C40_NoSessionAfterShutdown ==
    [][ ~serverRunning => \A s \in Sessions : pc[s] = "idle" => pc'[s] = "idle" ]_vars

\* what does hold: with the flag cleared the supervisor does not call
\* accept() again, so at most the call it is blocked in returns a connection
NoSecondAcceptAfterShutdown ==
    [][ (~serverRunning /\ pc[SupervisorThread] # "accept") => pc'[SupervisorThread] # "accept" ]_vars

\* a connection accepted with the flag cleared is registered and has its id
ServedAfterShutdown ==
    /\ ~serverRunning
    /\ logHistory = <<>>
    /\ pc[1] = "inc_load"
    /\ activeClientSockets # <<>>
    /\ myClientId[1] # 0

====
